---- MODULE Spec2Model ----
(***************************************************************************)
(* A model of sample_network_unmix.py: the flux accumulation over the      *)
(* sample network (mix_downstream and                                      *)
(* SampleNetworkUnmixer._build_primary_terms), the parameter binding of    *)
(* SampleNetworkUnmixer.solve, and the construction of InverseGrid.        *)
(*                                                                         *)
(* Numbers are exact: areas, export rates and tracer values are positive   *)
(* integers and quotients are kept as reduced fractions, so the identities *)
(* checked here are those of real arithmetic, not of float rounding.       *)
(* Node names are the non-empty sample codes get_sample_graphs puts in the *)
(* graph; they are numbered 1..n and NoNode stands for Python's None.      *)
(***************************************************************************)
EXTENDS Integers, Sequences, FiniteSets, TLC

\* ------------------------------------------------------------- bounds
NumNodes == 3

AreaValues == {1, 2}
RateValues == {1, 2}
ConcValues == {1, 3}
\* the tracer values of the nodes: the same everywhere, or all different
ConcMaps(N) == {[n \in N |-> c] : c \in ConcValues}
                 \cup {[n \in N |-> 2 * n + 3]}

\* ------------------------------------------------------------- values
NoNode == 0

Unset == [k |-> "unset"]
Num(v) == [k |-> "num", v |-> v]
Param == [k |-> "param"]
Var == [k |-> "var"]

RECURSIVE Gcd(_, _)
Gcd(a, b) == IF b = 0 THEN a ELSE Gcd(b, a % b)

\* a / b for b > 0, as a reduced fraction (Python's true division)
Frac(a, b) ==
  LET g == Gcd(IF a < 0 THEN -a ELSE a, b)
  IN  [k |-> "frac", n |-> a \div g, d |-> b \div g]

RECURSIVE SumOver(_, _)
SumOver(S, f) ==
  IF S = {} THEN 0
  ELSE LET x == CHOOSE y \in S : TRUE
       IN  f[x] + SumOver(S \ {x}, f)

\* A linear expression: const + sum over u of coef[u] * term(u). In
\* mix_downstream every quantity is a float (coef = 0); in the problem
\* builder term(u) is the cvxpy product rltv_area(u) * export_rate(u)
\* (times tracer_value(u) in a tracer flux), whose value is set at solve time.
\* A float has no term; float + expression is an expression.
Expr(c, f) ==
  [k |-> IF \A u \in DOMAIN f : f[u] = 0 THEN "float" ELSE "expr",
   const |-> c, coef |-> f]
ZeroCoef(N) == [u \in N |-> 0]
Float(N, c) == Expr(c, ZeroCoef(N))
Term(N, n) == Expr(0, [u \in N |-> IF u = n THEN 1 ELSE 0])
ExprAdd(a, b) ==
  Expr(a.const + b.const, [u \in DOMAIN a.coef |-> a.coef[u] + b.coef[u]])

None == [k |-> "none"]

\* the truth value of an object that defines neither __bool__ nor __len__
TruthyObject(x) == x # None

\* the label of a pixel no catchment claims
Unclaimed == 0
\* the sample name "NaN" of a node outside every catchment
NaNName == 0

\* 2 ** (n / d): the observations are powers of two, so that their
\* geometric mean and every quotient by it are exact
Pow2(n, d) == [Frac(n, d) EXCEPT !.k = "pow2"]

\* 1 / x
Reciprocal(x) ==
  CASE x.k = "num"  -> Frac(1, x.v)
    [] x.k = "frac" -> Frac(x.d, x.n)
    [] x.k = "pow2" -> [x EXCEPT !.n = -x.n]

\* ReciprocalParameter: the values of _p and _rp after value = val
ReciprocalParameter(val) ==
  [p |-> val, rp |-> IF val # None THEN Reciprocal(val) ELSE None]

FracAdd(a, b) == Frac(a.n * b.d + b.n * a.d, a.d * b.d)
FracScale(a, c) == Frac(a.n * c, a.d)

VARIABLES
  nodes,      \* sample_network: the node names
  edges,      \* sample_network: the edges <<upstream, downstream>>
  data,       \* sample_network.nodes[n]["data"]: the SampleNode attributes
  op,         \* the accumulation pass running: "mix" or "build"
  pc,         \* its position: "start", "loop", "returned", "raised"
  visited,    \* the nodes the topological iteration has yielded so far
  export_rates,     \* mix_downstream's export_rates argument (None or a dict)
  concentration,    \* np.mean(concentration_map[areas[n]]) of each node
  mixed_downstream_pred,
  mixed_upstream_pred,
  use_regularization,       \* SampleNetworkUnmixer.__init__'s argument
  continuous,               \* self.continuous
  site_to_observation,      \* self._site_to_observation: site -> value
  site_to_export_rate,      \* self._site_to_export_rate: site -> value
  site_to_total_flux,       \* self._site_to_total_flux: site -> value
  primary_terms,            \* self._primary_terms
  regularizer_terms,        \* self._regularizer_terms
  constraints,              \* self._constraints
  regularizer_strength,     \* self._regularizer_strength.value
  spc,            \* solve: the statement it has reached, "idle" outside it
  entry,          \* the parameter values when the solve call was entered
  arg_obs,        \* solve's observation_data, once it has been read
  arg_rates,      \* solve's export_rates, once it has been read
  arg_strength,   \* solve's regularization_strength, once it has been read
  outcome,        \* how the last solve ended: "returned", "config_error",
                  \* "solver_error"; "none" before its end
  error,          \* which check raised the configuration error
  solver_invoked, \* self._problem.solve was called in this solve
  caller,         \* who called solve: "user", "solve_montecarlo" or
                  \* "process_data"
  input_space,    \* the arguments the calls are drawn from: "any", or
                  \* "complete" for those that pass every check
  returned,       \* what the last solve returned
  solved,         \* the solver run the variables hold the values of;
                  \* None when their values are None
  grid_nx, grid_ny,   \* InverseGrid.__init__'s nx and ny
  area_labels,        \* its area_labels: <<row, column>> -> label
  raster_shape,       \* area_labels.shape: <<rows, columns>>
  gpc,                \* its position: "start", "sweep", "constructed",
                      \* "raised"
  gerror,             \* the exception it raised
  gi, gj,             \* the column and row the sweep has reached
  node_arr,           \* self.node_arr: <<row, column>> -> InverseNode
  sites_to_nodes,     \* self.sites_to_nodes: sample name -> its nodes
  rparam,         \* a ReciprocalParameter: the values of its _p and _rp
  assigned,       \* the values assigned to its value, in order
  zero_division,  \* the last assignment raised ZeroDivisionError
  ratio_a,        \* cp_log_ratio's a: the value of the variable
  ratio_b,        \* cp_log_ratio's b: the values of its _p and _rp
  log_ratio,      \* the value of cp_log_ratio(a, b)
  mc_pc,          \* solve_montecarlo: "idle", "loop", "returned", "raised"
  num_repeats,    \* its num_repeats
  mc_done,        \* the repeats its loop has completed
  mc_observation_data,      \* its observation_data
  mc_strength,              \* its regularization_strength
  predictions_down_mc,      \* sample name -> list of predictions
  predictions_up_mc,        \* the same, or a list of maps
  sample_network_raw,   \* get_sample_graphs: the records of the routing
                        \* engine, name -> downstream_node
  processed,            \* the records its loop has gone through
  graph_pc,             \* its position: "start", "loop", "returned"
  sw_pc,          \* process_data: "idle", "loop", "returned", "raised"
  sw_element,     \* the elements its loop has completed
  element_data,   \* the observations of the element it is solving for
  results,        \* the elements with columns in its results
  solver_failed,  \* the elements for which the solver failed
  pass_no,        \* the passes over the network begun so far
  last_mix,       \* what the last mix_downstream before this pass returned
  interfered,     \* what else has run on the network of the problem:
                  \* "none", "mix_downstream" or "second_problem"
  got,            \* what the prediction getters of the problem returned,
                  \* and the solver run whose values the variables held
  obs_cells,          \* get_element_obs: the cells of the element's
                      \* column, sample by sample
  obs_element_data,   \* the mapping it returned
  centre_pixel,   \* the pixel at which a grid cell reads its label
  block_pixels    \* the rows and columns get_upstream_prediction_map
                  \* fills for the same cell

netVars == <<nodes, edges, data>>
passVars == <<op, pc, visited, export_rates, concentration,
              mixed_downstream_pred, mixed_upstream_pred>>
problemVars == <<use_regularization, continuous, site_to_observation, site_to_export_rate,
                 site_to_total_flux, primary_terms, regularizer_terms,
                 constraints, regularizer_strength>>
solveVars == <<spc, entry, arg_obs, arg_rates, arg_strength, outcome, error,
               solver_invoked, caller, input_space, returned, solved>>
gridVars == <<grid_nx, grid_ny, area_labels, raster_shape, gpc, gerror, gi, gj,
              node_arr, sites_to_nodes>>
paramVars == <<rparam, assigned, zero_division, ratio_a, ratio_b, log_ratio>>
mcVars == <<mc_pc, num_repeats, mc_done, mc_observation_data, mc_strength,
            predictions_down_mc, predictions_up_mc>>
graphVars == <<sample_network_raw, processed, graph_pc>>
sweepVars == <<sw_pc, sw_element, element_data, results, solver_failed>>
repeatVars == <<pass_no, last_mix>>
sharedVars == <<interfered, got>>
obsVars == <<obs_cells, obs_element_data>>
cellVars == <<centre_pixel, block_pixels>>
lateVars == <<repeatVars, sharedVars, obsVars, cellVars>>
restVars == <<paramVars, graphVars, sweepVars, lateVars>>
otherVars == <<restVars, mcVars>>
vars == <<netVars, passVars, problemVars, solveVars, gridVars, otherVars>>

\* ------------------------------------------------------------ network
Dict(f) == [k |-> "dict", f |-> f]
\* the truth value Python gives an Optional[dict]: None and {} are false
TruthyDict(x) == x.k = "dict" /\ DOMAIN x.f # {}

Successors(E, x) == {e[2] : e \in {d \in E : d[1] = x}}
Predecessors(E, x) == {e[1] : e \in {d \in E : d[2] = x}}

\* nx_get_downstream: None, the single successor, or an exception
NxGetDownstreamBroken(E, x) ==
  LET s == Successors(E, x)
  IN  IF s = {} THEN [raised |-> FALSE, ds |-> NoNode]
      ELSE [raised |-> FALSE, ds |-> CHOOSE y \in s : TRUE]

NxGetDownstream(E, x) ==
  LET s == Successors(E, x)
  IN  IF Cardinality(s) = 0 THEN [raised |-> FALSE, ds |-> NoNode]
      ELSE IF Cardinality(s) = 1
           THEN [raised |-> FALSE, ds |-> CHOOSE y \in s : TRUE]
           ELSE [raised |-> TRUE, ds |-> NoNode]

\* As CalculateNormalisedAreas, dividing each area by itself.
CalculateUnitAreas(N, d) ==
  [u \in N |-> [d[u] EXCEPT !.rltv_area = Frac(d[u].area, d[u].area)]]

\* calculate_normalised_areas: area / mean(area) = area * n / sum(area)
CalculateNormalisedAreas(N, d) ==
  LET total == SumOver(N, [u \in N |-> d[u].area])
  IN  [u \in N |-> [d[u] EXCEPT !.rltv_area =
                      Frac(d[u].area * Cardinality(N), total)]]

\* As ResetTotals, leaving the totals a node already has.
ResetTotalsOnce(N, d) ==
  [u \in N |-> IF d[u].my_total_flux = Unset
               THEN [d[u] EXCEPT !.my_total_tracer_flux = Float(N, 0),
                                 !.my_total_flux = Float(N, 0)]
               ELSE d[u]]

\* The reset loop that opens both passes.
ResetTotals(N, d) ==
  [u \in N |-> [d[u] EXCEPT !.my_total_tracer_flux = Float(N, 0),
                            !.my_total_flux = Float(N, 0)]]

\* As AddToDownstream, but passing on the node's own flux, not its total.
AddOwnToDownstream(d, n, ds) ==
  [d EXCEPT ![ds].my_total_flux = ExprAdd(@, d[n].my_flux),
            ![ds].my_total_tracer_flux = ExprAdd(@, d[n].my_tracer_flux)]

\* Adding a node's accumulated totals to its downstream node's.
AddToDownstream(d, n, ds) ==
  [d EXCEPT ![ds].my_total_flux = ExprAdd(@, d[n].my_total_flux),
            ![ds].my_total_tracer_flux =
               ExprAdd(@, d[n].my_total_tracer_flux)]

\* The tail of one loop iteration of either pass: the node's own flux and
\* tracer flux are added to its totals, and its totals to its downstream
\* node's, when nx_get_downstream names one.
Accumulate(N, E, d, n, flux, tracer_flux) ==
  LET d1 == [d EXCEPT ![n].my_flux = flux,
                      ![n].my_total_flux = ExprAdd(@, flux),
                      ![n].my_tracer_flux = tracer_flux,
                      ![n].my_total_tracer_flux = ExprAdd(@, tracer_flux)]
      g  == NxGetDownstream(E, n)
  IN  [raised |-> g.raised,
       own    |-> d1,
       data   |-> IF ~g.raised /\ g.ds # NoNode
                  THEN AddToDownstream(d1, n, g.ds) ELSE d1]

\* As TopologicalNext, yielding the nodes in any order.
TopologicalNextAnyOrder(N, E, done) == N \ done

\* nx_topological_sort_with_data: the nodes the iteration may yield next,
\* every node after all of its upstream nodes
TopologicalNext(N, E, done) ==
  {n \in N \ done : Predecessors(E, n) \subseteq done}

\* mix_downstream, one iteration of its loop over the nodes
MixNode(N, E, d, n, rates, conc) ==
  LET rate == IF TruthyDict(rates) THEN rates.f[n] ELSE 1
      d0   == [d EXCEPT ![n].my_export_rate = Num(rate),
                        ![n].my_tracer_value = Num(conc[n])]
      flux == Float(N, d[n].area * rate)
      tflx == Float(N, flux.const * conc[n])
      acc  == Accumulate(N, E, d0, n, flux, tflx)
  IN  [raised |-> acc.raised,
       data   |-> acc.data,
       normalised |-> Frac(acc.own[n].my_total_tracer_flux.const,
                           acc.own[n].my_total_flux.const),
       upstream   |-> conc[n]]

\* self.grid.sites_to_nodes[sample_name]: a defaultdict adds the key it is
\* asked for
NodesOfSite(stn, n) == IF n \in DOMAIN stn THEN stn[n] ELSE << >>

\* the tracer value of a node of the network: a variable, or in a
\* continuous problem the mean of the concentrations of its grid nodes
TracerValue(cont, stn, n) ==
  IF cont THEN [k |-> "mean", of |-> NodesOfSite(stn, n)] ELSE Var

\* _build_primary_terms, one iteration of its loop
BuildNode(N, E, d, n) ==
  LET d0  == [d EXCEPT ![n].my_tracer_value =
                         TracerValue(continuous, sites_to_nodes, n),
                       ![n].my_export_rate = Param]
  IN  Accumulate(N, E, d0, n, Term(N, n), Term(N, n))

\* mix_downstream from its loop on: the nodes in a topological order, up
\* to the exception of nx_get_downstream if there is one
RECURSIVE MixLoop(_, _, _, _, _, _, _, _)
MixLoop(N, E, d, done, rates, conc, down, up) ==
  IF TopologicalNext(N, E, done) = {}
  THEN [raised |-> FALSE, data |-> d, down |-> down, up |-> up]
  ELSE LET n == CHOOSE x \in TopologicalNext(N, E, done) : TRUE
           r == MixNode(N, E, d, n, rates, conc)
       IN  IF r.raised
           THEN [raised |-> TRUE, data |-> r.data, down |-> down, up |-> up]
           ELSE MixLoop(N, E, r.data, done \cup {n}, rates, conc,
                        (n :> r.normalised) @@ down,
                        (n :> r.upstream) @@ up)

\* mix_downstream, the whole call
MixDownstream(N, E, d, rates, conc) ==
  MixLoop(N, E, ResetTotals(N, d), {}, rates, conc, << >>, << >>)

\* _build_primary_terms from its loop on, as far as the network goes
RECURSIVE BuildLoop(_, _, _, _)
BuildLoop(N, E, d, done) ==
  IF TopologicalNext(N, E, done) = {}
  THEN [raised |-> FALSE, data |-> d]
  ELSE LET n == CHOOSE x \in TopologicalNext(N, E, done) : TRUE
           r == BuildNode(N, E, d, n)
       IN  IF r.raised THEN [raised |-> TRUE, data |-> r.data]
           ELSE BuildLoop(N, E, r.data, done \cup {n})

\* _build_primary_terms, the whole call, as far as the network goes
BuildPrimaryTerms(N, E, d) ==
  BuildLoop(N, E, CalculateNormalisedAreas(N, ResetTotals(N, d)), {})

MixDownstreamBegin ==
  /\ op = "mix" /\ pc = "start"
  /\ data' = ResetTotals(nodes, data)
  /\ mixed_downstream_pred' = << >>
  /\ mixed_upstream_pred' = << >>
  /\ visited' = {}
  /\ pc' = "loop"
  /\ UNCHANGED <<nodes, edges, op, export_rates, concentration, problemVars,
                 solveVars,
                 gridVars, otherVars>>

MixDownstreamStep ==
  /\ op = "mix" /\ pc = "loop"
  /\ \E n \in TopologicalNext(nodes, edges, visited) :
       LET r == MixNode(nodes, edges, data, n, export_rates, concentration)
       IN  /\ data' = r.data
           /\ visited' = visited \cup {n}
           /\ mixed_downstream_pred' =
                (n :> r.normalised) @@ mixed_downstream_pred
           /\ mixed_upstream_pred' = (n :> r.upstream) @@ mixed_upstream_pred
           /\ pc' = IF r.raised THEN "raised" ELSE "loop"
  /\ UNCHANGED <<nodes, edges, op, export_rates, concentration, problemVars,
                 solveVars,
                 gridVars, otherVars>>

MixDownstreamReturn ==
  /\ op = "mix" /\ pc = "loop"
  /\ TopologicalNext(nodes, edges, visited) = {}
  /\ pc' = "returned"
  /\ UNCHANGED <<netVars, op, visited, export_rates, concentration,
                 mixed_downstream_pred, mixed_upstream_pred, problemVars,
                 solveVars,
                 gridVars, otherVars>>

\* SampleNetworkUnmixer.__init__ up to the loop of _build_primary_terms
BuildBegin ==
  /\ op = "build" /\ pc = "start"
  /\ continuous => gpc = "constructed"
  /\ data' = CalculateNormalisedAreas(nodes, ResetTotals(nodes, data))
  /\ site_to_observation' = << >>
  /\ site_to_export_rate' = << >>
  /\ site_to_total_flux' = << >>
  /\ primary_terms' = << >>
  /\ regularizer_terms' = << >>
  /\ constraints' = << >>
  /\ regularizer_strength' = None
  /\ visited' = {}
  /\ pc' = "loop"
  /\ UNCHANGED <<nodes, edges, op, export_rates, concentration,
                 mixed_downstream_pred, mixed_upstream_pred,
                 use_regularization, continuous, solveVars,
                 gridVars, otherVars>>

BuildStep ==
  /\ op = "build" /\ pc = "loop"
  /\ \E n \in TopologicalNext(nodes, edges, visited) :
       LET r == BuildNode(nodes, edges, data, n)
       IN  /\ data' = r.data
           /\ visited' = visited \cup {n}
           /\ sites_to_nodes' =
                IF continuous /\ n \notin DOMAIN sites_to_nodes
                THEN (n :> << >>) @@ sites_to_nodes
                ELSE sites_to_nodes
           /\ site_to_export_rate' = (n :> None) @@ site_to_export_rate
           /\ site_to_total_flux' =
                (n :> ReciprocalParameter(None)) @@ site_to_total_flux
           /\ constraints' = constraints \o
                 << [kind |-> "total_tracer_flux", site |-> n],
                    [kind |-> "normalised_concentration", site |-> n] >>
           /\ site_to_observation' =
                (n :> ReciprocalParameter(None)) @@ site_to_observation
           /\ primary_terms' = Append(primary_terms, n)
           \* the mean of no concentrations divides by a length of 0,
           \* which raises or gives an expression without a value
           /\ pc' \in
                IF r.raised THEN {"raised"}
                ELSE IF continuous /\ NodesOfSite(sites_to_nodes, n) = << >>
                THEN {"raised", "loop"}
                ELSE {"loop"}
  /\ UNCHANGED <<nodes, edges, op, export_rates, concentration,
                 mixed_downstream_pred, mixed_upstream_pred,
                 use_regularization, continuous, regularizer_terms,
                 regularizer_strength, solveVars, grid_nx, grid_ny,
                 area_labels, raster_shape, gpc, gerror, gi, gj, node_arr,
                 otherVars>>

\* _build_regularizer_terms_discrete: one term per node of the network
RECURSIVE SeqOfSet(_)
SeqOfSet(S) ==
  IF S = {} THEN << >>
  ELSE LET x == CHOOSE y \in S : \A z \in S : y <= z
       IN  <<x>> \o SeqOfSet(S \ {x})

\* As Excluded, looking at the node alone.
ExcludedByNodeOnly(arr, c, nb) ==
  \/ arr[c].sample_name = NaNName
  \/ ~TruthyObject(nb)

\* the adjacent pairs _build_regularizer_terms_continuous passes over
\* without a term: the node or the neighbour is outside every catchment
\* (or there is no neighbour)
Excluded(arr, c, nb) ==
  \/ arr[c].sample_name = NaNName
  \/ ~TruthyObject(nb)
  \/ arr[<<nb.j, nb.i>>].sample_name = NaNName

\* _build_regularizer_terms_continuous: the terms of the nodes from the
\* k-th on of node_arr.flatten(), which goes through the rows one by one
RECURSIVE RegularizerTermsContinuous(_, _, _, _)
RegularizerTermsContinuous(arr, ny_, nx_, k) ==
  IF k >= ny_ * nx_ THEN << >>
  ELSE LET c    == <<k \div nx_, k % nx_>>
           node == arr[c]
           left == IF Excluded(arr, c, node.left_neighbour) THEN << >>
                   ELSE << [node |-> c,
                            minus |-> <<node.left_neighbour.j,
                                        node.left_neighbour.i>>] >>
           top  == IF Excluded(arr, c, node.top_neighbour) THEN << >>
                   ELSE << [node |-> c,
                            minus |-> <<node.top_neighbour.j,
                                        node.top_neighbour.i>>] >>
       IN  left \o top \o RegularizerTermsContinuous(arr, ny_, nx_, k + 1)

\* The rest of SampleNetworkUnmixer.__init__: the regularizer, _build_problem
BuildEnd ==
  /\ op = "build" /\ pc = "loop"
  /\ TopologicalNext(nodes, edges, visited) = {}
  /\ regularizer_terms' =
       IF ~use_regularization THEN << >>
       ELSE IF continuous
       THEN RegularizerTermsContinuous(node_arr, grid_ny, grid_nx, 0)
       ELSE SeqOfSet(nodes)
  /\ pc' = "returned"
  /\ UNCHANGED <<netVars, op, visited, export_rates, concentration,
                 mixed_downstream_pred, mixed_upstream_pred,
                 use_regularization, continuous, site_to_observation, site_to_export_rate,
                 site_to_total_flux, primary_terms, constraints,
                 regularizer_strength, solveVars,
                 gridVars, otherVars>>

\* ------------------------------------------- the accumulation passes
\* A SampleNode as get_sample_graphs delivers it: an area and a label, and
\* none of the attributes the passes add.
SampleNode(a, l) ==
  [area |-> a, label |-> l, rltv_area |-> Unset,
   my_export_rate |-> Unset, my_tracer_value |-> Unset,
   my_flux |-> Unset, my_tracer_flux |-> Unset,
   my_total_flux |-> Unset, my_total_tracer_flux |-> Unset]

\* The acyclic graphs over N, up to renaming: every edge leads from a
\* lower to a higher number. A node may have several downstream edges.
Dags(N) == SUBSET {e \in N \X N : e[1] < e[2]}

NoProblem ==
  /\ use_regularization = FALSE
  /\ continuous = FALSE
  /\ site_to_observation = << >>
  /\ site_to_export_rate = << >>
  /\ site_to_total_flux = << >>
  /\ primary_terms = << >>
  /\ regularizer_terms = << >>
  /\ constraints = << >>
  /\ regularizer_strength = None

\* no ReciprocalParameter under test
NoParam ==
  /\ rparam = [p |-> None, rp |-> None]
  /\ assigned = << >>
  /\ zero_division = FALSE
  /\ ratio_a = None /\ ratio_b = None /\ log_ratio = None

\* no solve_montecarlo running
NoMonteCarlo ==
  /\ mc_pc = "idle"
  /\ num_repeats = 0 /\ mc_done = 0
  /\ mc_observation_data = Unset /\ mc_strength = Unset
  /\ predictions_down_mc = << >>
  /\ predictions_up_mc = << >>

\* no get_sample_graphs and no process_data running
NoGraph ==
  /\ sample_network_raw = << >>
  /\ processed = {}
  /\ graph_pc = "start"

NoSweep ==
  /\ sw_pc = "idle"
  /\ sw_element = 0
  /\ element_data = Unset
  /\ results = << >>
  /\ solver_failed = {}

\* a single pass on the network, and nothing else running on it
NoRepeat == pass_no = 1 /\ last_mix = None
NoShared == interfered = "none" /\ got = Unset
\* no get_element_obs running, and no cell being looked at
NoObs == obs_cells = << >> /\ obs_element_data = Unset
NoCells == centre_pixel = Unset /\ block_pixels = Unset
NoLate == NoRepeat /\ NoShared /\ NoObs /\ NoCells

NoOther == NoParam /\ NoMonteCarlo /\ NoGraph /\ NoSweep /\ NoLate

NoGrid ==
  /\ grid_nx = 0 /\ grid_ny = 0
  /\ area_labels = << >>
  /\ raster_shape = <<0, 0>>
  /\ gpc = "start" /\ gerror = "none"
  /\ gi = 0 /\ gj = 0
  /\ node_arr = << >>
  /\ sites_to_nodes = << >>

NoSolve ==
  /\ spc = "idle"
  /\ entry = Unset
  /\ arg_obs = Unset
  /\ arg_rates = Unset
  /\ arg_strength = Unset
  /\ outcome = "none"
  /\ error = "none"
  /\ solver_invoked = FALSE
  /\ caller = "none"
  /\ returned = None
  /\ solved = Unset

InitMix ==
  /\ NoSolve /\ NoGrid /\ NoOther
  /\ input_space = "any"
  /\ nodes = 1..NumNodes
  /\ edges \in Dags(nodes)
  /\ \E a \in [nodes -> AreaValues] :
       data = [n \in nodes |-> SampleNode(a[n], n)]
  /\ pc = "start"
  /\ visited = {}
  /\ mixed_downstream_pred = << >>
  /\ mixed_upstream_pred = << >>
  /\ \/ /\ op = "mix"
        /\ export_rates \in {None, Dict(<< >>)}
                            \cup {Dict(f) : f \in [nodes -> RateValues]}
        /\ concentration \in ConcMaps(nodes)
        /\ NoProblem
     \/ /\ op = "build"
        /\ export_rates = None
        /\ concentration = [n \in nodes |-> 0]
        /\ use_regularization \in BOOLEAN
        /\ continuous = FALSE
        /\ site_to_observation = << >>
        /\ site_to_export_rate = << >>
        /\ site_to_total_flux = << >>
        /\ primary_terms = << >>
        /\ regularizer_terms = << >>
        /\ constraints = << >>
        /\ regularizer_strength = None

NextMix ==
  \/ MixDownstreamBegin
  \/ MixDownstreamStep
  \/ MixDownstreamReturn
  \/ BuildBegin
  \/ BuildStep
  \/ BuildEnd

SpecMix == InitMix /\ [][NextMix]_vars

\* ------------------------------------- passes on the same network
MaxPasses == 3

\* mix_downstream is called, or a SampleNetworkUnmixer constructed, on the
\* network an earlier pass has gone over; mix_downstream with the inputs
\* of the earlier calls
PassAgain ==
  /\ pc = "returned"
  /\ pass_no < MaxPasses
  /\ pass_no' = pass_no + 1
  /\ op' \in {"mix", "build"}
  /\ pc' = "start"
  /\ last_mix' = IF op = "mix"
                 THEN [down |-> mixed_downstream_pred,
                       up |-> mixed_upstream_pred]
                 ELSE last_mix
  /\ UNCHANGED <<netVars, visited, export_rates, concentration,
                 mixed_downstream_pred, mixed_upstream_pred, problemVars,
                 solveVars, gridVars, paramVars, graphVars, sweepVars,
                 mcVars, sharedVars, obsVars, cellVars>>

\* The networks in which every node has at most one downstream node, with
\* areas 1, 2, ..., the default export rates or those of the sample table,
\* and a different tracer value in every node.
InitRepeat ==
  /\ NoSolve /\ NoGrid /\ NoOther /\ NoProblem
  /\ input_space = "any"
  /\ nodes = 1..NumNodes
  /\ edges \in {E \in Dags(nodes) :
                 \A n \in nodes : Cardinality(Successors(E, n)) <= 1}
  /\ data = [n \in nodes |-> SampleNode(n, n)]
  /\ op \in {"mix", "build"}
  /\ pc = "start"
  /\ visited = {}
  /\ mixed_downstream_pred = << >>
  /\ mixed_upstream_pred = << >>
  /\ export_rates \in {None, Dict([n \in nodes |-> 1 + (n % 2)])}
  /\ concentration = [n \in nodes |-> 2 * n + 3]

NextRepeat ==
  \/ MixDownstreamBegin
  \/ MixDownstreamStep
  \/ MixDownstreamReturn
  \/ BuildBegin
  \/ BuildStep
  \/ BuildEnd
  \/ PassAgain

SpecRepeat == InitRepeat /\ [][NextRepeat]_vars

\* --------------------------------------------------------------- solve
NumSites == 2

StrengthValues == {None, Num(0), Num(1)}

\* a site name the problem does not know
UnknownSite == NumSites + 1

\* The sample table the calls draw their arguments from: the tracer
\* observed at site s is 2 ** (s % 2) and its export rate 1 + s % 2. An
\* argument is the part of the table for any set of names.
ObservationInputs(S) == {[s \in K |-> s % 2] : K \in SUBSET S}
ExportRateInputs(S) ==
  {None} \cup {Dict([s \in K |-> 1 + (s % 2)]) : K \in SUBSET S}

\* geo_mean of the observations 2 ** obs[s], as the exponent of 2
GeoMeanExponent(obs) ==
  Frac(SumOver(DOMAIN obs, obs), Cardinality(DOMAIN obs))

\* value / obs_mean for the observation of site s
Normalised(obs, s) ==
  LET m == GeoMeanExponent(obs)
  IN  Pow2(obs[s] * m.d - m.n, m.d)

\* A dict is iterated in insertion order, which the model leaves open: when
\* a loop over its items stops at the first key not in `known`, the keys
\* handled before it may be any of the dict's known keys.
HandledBefore(keys, known) ==
  IF keys \subseteq known THEN {keys} ELSE SUBSET (keys \cap known)

\* As _set_observation_parameters, without its closing loop of assertions.
SetObservationUnchecked(sto, obs, before) ==
  LET known == DOMAIN sto
      bind(S) == [s \in known |->
                    IF s \in S THEN ReciprocalParameter(Normalised(obs, s))
                    ELSE ReciprocalParameter(None)]
  IN  IF ~(DOMAIN obs \subseteq known)
      THEN [raised |-> TRUE, error |-> "unknown_observation_site",
            val |-> bind(before)]
      ELSE [raised |-> FALSE, error |-> "none", val |-> bind(DOMAIN obs)]

\* _set_observation_parameters: every parameter is reset to None, each
\* observation is bound after an assertion that its site is known, and a
\* last loop asserts that no site is left at None.
SetObservationParameters(sto, obs, before) ==
  LET known == DOMAIN sto
      bind(S) == [s \in known |->
                    IF s \in S THEN ReciprocalParameter(Normalised(obs, s))
                    ELSE ReciprocalParameter(None)]
  IN  IF ~(DOMAIN obs \subseteq known)
      THEN [raised |-> TRUE, error |-> "unknown_observation_site",
            val |-> bind(before)]
      ELSE IF \E s \in known : bind(DOMAIN obs)[s].p = None
      THEN [raised |-> TRUE, error |-> "missing_observation",
            val |-> bind(DOMAIN obs)]
      ELSE [raised |-> FALSE, error |-> "none", val |-> bind(DOMAIN obs)]

\* As _set_export_rate_parameters, passing over a rate whose site the
\* problem does not know.
SetExportRateUnknownIgnored(ste, rates, before) ==
  LET known == DOMAIN ste
      bind(S) == [s \in known |-> IF s \in S THEN Num(rates.f[s]) ELSE None]
  IN  IF ~TruthyDict(rates)
      THEN [raised |-> FALSE, error |-> "none",
            val |-> [s \in known |-> Num(1)]]
      ELSE IF \E s \in known : bind(DOMAIN rates.f)[s] = None
      THEN [raised |-> TRUE, error |-> "missing_export_rate",
            val |-> bind(DOMAIN rates.f)]
      ELSE [raised |-> FALSE, error |-> "none", val |-> bind(DOMAIN rates.f)]

\* As _set_export_rate_parameters, without the reset that opens it.
SetExportRateNoReset(ste, rates, before) ==
  LET known == DOMAIN ste
      bind(S) == [s \in known |-> IF s \in S THEN Num(rates.f[s]) ELSE ste[s]]
  IN  IF ~TruthyDict(rates)
      THEN [raised |-> FALSE, error |-> "none",
            val |-> [s \in known |-> Num(1)]]
      ELSE IF ~(DOMAIN rates.f \subseteq known)
      THEN [raised |-> TRUE, error |-> "unknown_export_rate_site",
            val |-> bind(before)]
      ELSE IF \E s \in known : bind(DOMAIN rates.f)[s] = None
      THEN [raised |-> TRUE, error |-> "missing_export_rate",
            val |-> bind(DOMAIN rates.f)]
      ELSE [raised |-> FALSE, error |-> "none", val |-> bind(DOMAIN rates.f)]

\* _set_export_rate_parameters: reset, then either the rates given (each
\* after an assertion that its site is known) or 1 for every site, then
\* the assertions that no site is left at None.
SetExportRateParameters(ste, rates, before) ==
  LET known == DOMAIN ste
      bind(S) == [s \in known |-> IF s \in S THEN Num(rates.f[s]) ELSE None]
  IN  IF ~TruthyDict(rates)
      THEN [raised |-> FALSE, error |-> "none",
            val |-> [s \in known |-> Num(1)]]
      ELSE IF ~(DOMAIN rates.f \subseteq known)
      THEN [raised |-> TRUE, error |-> "unknown_export_rate_site",
            val |-> bind(before)]
      ELSE IF \E s \in known : bind(DOMAIN rates.f)[s] = None
      THEN [raised |-> TRUE, error |-> "missing_export_rate",
            val |-> bind(DOMAIN rates.f)]
      ELSE [raised |-> FALSE, error |-> "none", val |-> bind(DOMAIN rates.f)]

\* my_total_flux.value: the expression under the export rates bound
RECURSIVE ExprValue(_, _, _, _)
ExprValue(x, S, d, ste) ==
  IF S = {} THEN Frac(x.const, 1)
  ELSE LET u == CHOOSE y \in S : TRUE
       IN  FracAdd(FracScale(d[u].rltv_area, x.coef[u] * ste[u].v),
                   ExprValue(x, S \ {u}, d, ste))

\* my_total_tracer_flux.value: the expression under the export rates bound
\* and the values tv of the tracer variables
RECURSIVE ExprTracerValue(_, _, _, _, _)
ExprTracerValue(x, S, d, ste, tv) ==
  IF S = {} THEN Frac(x.const, 1)
  ELSE LET u == CHOOSE y \in S : TRUE
       IN  FracAdd(FracScale(d[u].rltv_area,
                             x.coef[u] * ste[u].v * tv[u]),
                   ExprTracerValue(x, S \ {u}, d, ste, tv))

\* a / b
FracDiv(a, b) == Frac(a.n * b.d, a.d * b.n)

\* get_downstream_prediction_dictionary, the prediction of node n:
\* my_total_tracer_flux.value / my_total_flux.value
DownstreamPrediction(N, d, n, ste, tv) ==
  FracDiv(ExprTracerValue(d[n].my_total_tracer_flux, N, d, ste, tv),
          ExprValue(d[n].my_total_flux, N, d, ste))

\* the parameters and variables of another problem built on the network
OtherParam == [k |-> "param", of |-> "second_problem"]
OtherVar == [k |-> "var", of |-> "second_problem"]

\* _set_total_flux_parameters: reset, then the value of every node's
\* my_total_flux as the node holds it now. A float has no .value; an
\* expression over the export rates of another problem, which has bound
\* none, has the value None, and the closing assertions fail
SetTotalFluxParameters(stf, N, d, ste) ==
  IF \E n \in N : d[n].my_total_flux.k # "expr"
  THEN [raised |-> TRUE, error |-> "attribute_error",
        val |-> [s \in DOMAIN stf |-> ReciprocalParameter(None)]]
  ELSE IF \E n \in N : d[n].my_export_rate # Param
  THEN [raised |-> TRUE, error |-> "total_flux_none",
        val |-> [s \in DOMAIN stf |-> ReciprocalParameter(None)]]
  ELSE [raised |-> FALSE, error |-> "none",
        val |-> [s \in DOMAIN stf |->
                  ReciprocalParameter(ExprValue(d[s].my_total_flux, N, d, ste))]]

\* the truth value of an Optional[float]: None and 0 are false
TruthyNumber(x) == x # None /\ x.v # 0

\* what the call of the solver may do: return with the variables solved,
\* return with a status other than optimal and the variables at None, or
\* raise cp.error.SolverError
SolverResults == {"optimal", "infeasible", "solver_error"}

\* how solve ends once the solver was called: with a SolverError, with the
\* TypeError of a prediction computed from values of None, or returning
SolverOutcome(result) ==
  CASE result = "optimal"      -> "returned"
    [] result = "infeasible"   -> "type_error"
    [] result = "solver_error" -> "solver_error"

\* As SolveTail, asking for a strength whether or not there are terms.
SolveTailAlwaysChecked(terms, strength, result) ==
  IF ~TruthyNumber(strength)
  THEN [outcome |-> "config_error", error |-> "no_strength",
        invoked |-> FALSE, bind |-> FALSE]
  ELSE [outcome |-> SolverOutcome(result),
        error |-> "none", invoked |-> TRUE, bind |-> TRUE]

\* As SolveTail, with the solver called before the strength is checked.
SolveTailCheckedLate(terms, strength, result) ==
  IF terms # << >> /\ ~TruthyNumber(strength)
  THEN [outcome |-> "config_error", error |-> "no_strength",
        invoked |-> TRUE, bind |-> FALSE]
  ELSE [outcome |-> SolverOutcome(result),
        error |-> "none", invoked |-> TRUE, bind |-> TRUE]

\* solve from its check of the strength on: the check, the binding of the
\* strength, the call of the solver, the predictions
SolveTail(terms, strength, result) ==
  IF terms # << >> /\ ~TruthyNumber(strength)
  THEN [outcome |-> "config_error", error |-> "no_strength",
        invoked |-> FALSE, bind |-> FALSE]
  ELSE [outcome |-> SolverOutcome(result),
        error |-> "none", invoked |-> TRUE, bind |-> TRUE]

\* the value the solver run `run` gave the variable or expression x
SolvedValue(x, run) == [k |-> "value", of |-> x, run |-> run, scaled |-> FALSE]
NaN == [k |-> "nan"]
\* value * obs_mean
Scaled(v) == IF v.k = "value" THEN [v EXCEPT !.scaled = TRUE] ELSE v

\* node.concentration.value: None before a solve, after a solve that left
\* the variables at None, and for a variable that is not in the problem
ConcentrationValue(arr, c, sol) ==
  IF sol \in {Unset, None} \/ arr[c].sample_name = NaNName THEN None
  ELSE SolvedValue(<<"cell", c[1], c[2]>>, sol.v)

\* a value stored into a float array: None is stored as nan
StoredFloat(v) == IF v = None THEN NaN ELSE v

\* int(i * step) with step = max / n
BlockStart(i, n, max) == (i * max) \div n

\* As GetUpstreamPredictionMap, leaving the zeros of np.zeros where a node
\* has no value.
GetUpstreamPredictionMapZeros(arr, nx_, ny_, shape, sol) ==
  [q \in (0..(shape[1] - 1)) \X (0..(shape[2] - 1)) |->
     LET covering == {c \in DOMAIN arr :
                        /\ BlockStart(c[1], ny_, shape[1]) <= q[1]
                        /\ q[1] < BlockStart(c[1] + 1, ny_, shape[1])
                        /\ BlockStart(c[2], nx_, shape[2]) <= q[2]
                        /\ q[2] < BlockStart(c[2] + 1, nx_, shape[2])}
     IN  IF covering = {} THEN Num(0)
         ELSE LET c == CHOOSE c \in covering : TRUE
              IN  IF ConcentrationValue(arr, c, sol) # None
                  THEN ConcentrationValue(arr, c, sol)
                  ELSE Num(0)]

\* get_upstream_prediction_map on a continuous problem: each node's block
\* of pixels is filled with the node's value (the blocks do not overlap)
GetUpstreamPredictionMap(arr, nx_, ny_, shape, sol) ==
  [q \in (0..(shape[1] - 1)) \X (0..(shape[2] - 1)) |->
     LET covering == {c \in DOMAIN arr :
                        /\ BlockStart(c[1], ny_, shape[1]) <= q[1]
                        /\ q[1] < BlockStart(c[1] + 1, ny_, shape[1])
                        /\ BlockStart(c[2], nx_, shape[2]) <= q[2]
                        /\ q[2] < BlockStart(c[2] + 1, nx_, shape[2])}
     IN  IF covering = {} THEN Num(0)
         ELSE LET c == CHOOSE c \in covering : TRUE
              IN  IF TruthyObject(arr[c].concentration)
                  THEN StoredFloat(ConcentrationValue(arr, c, sol))
                  ELSE NaN]

\* the values of the parameters of the problem
Bindings ==
  [observation |-> site_to_observation, export_rate |-> site_to_export_rate,
   total_flux |-> site_to_total_flux, strength |-> regularizer_strength]

\* The arguments the calls on the problem are drawn from: with
\* input_space = "any" all the inputs above; with "few" observations of
\* every site or of all but the first, no export rates or those of every
\* site, and a strength or none; with "complete" observations of every
\* site, no export rates and a strength.
ObservationChoices ==
  CASE input_space = "any" -> ObservationInputs(nodes \cup {UnknownSite})
    [] input_space = "few" ->
         {o \in ObservationInputs(nodes) : nodes \ {1} \subseteq DOMAIN o}
    [] input_space = "complete" ->
         {o \in ObservationInputs(nodes) : DOMAIN o = nodes}

ExportRateChoices ==
  CASE input_space = "any" -> ExportRateInputs(nodes \cup {UnknownSite})
    [] input_space = "few" ->
         {r \in ExportRateInputs(nodes) : r = None \/ DOMAIN r.f = nodes}
    [] input_space = "complete" -> {None}

StrengthChoices ==
  CASE input_space = "any" -> StrengthValues
    [] input_space = "few" -> {None, Num(1)}
    [] input_space = "complete" -> {Num(1)}

\* The arguments of a call of solve: solve_montecarlo passes its
\* observations resampled (under the same names), no export rates, and
\* its strength; process_data the observations of an element.
ObservationArguments ==
  CASE caller = "solve_montecarlo" -> {mc_observation_data.f}
    [] caller = "process_data" -> {element_data.f}
    [] caller = "user" -> ObservationChoices

\* As ExportRateArguments, with solve_montecarlo passing export rates on.
ExportRateArgumentsForwarded ==
  IF caller \in {"user", "solve_montecarlo"} THEN ExportRateChoices
  ELSE {None}

ExportRateArguments ==
  IF caller = "user" THEN ExportRateChoices ELSE {None}

\* process_data passes a strength of 1e-3
StrengthArguments ==
  CASE caller = "solve_montecarlo" -> {mc_strength}
    [] caller = "process_data" -> {Num(1)}
    [] caller = "user" -> StrengthChoices

\* the solver run of this call: the repeat of solve_montecarlo, the
\* element of process_data, or 0
Run ==
  CASE caller = "solve_montecarlo" -> mc_done + 1
    [] caller = "process_data" -> sw_element + 1
    [] caller = "user" -> 0

\* what solve returns: the downstream predictions of every node of the
\* network, and the upstream predictions, a map if continuous and a dict
\* of every node if not, all multiplied by the mean of the observations
SolveReturn(run) ==
  [down |-> [s \in nodes |-> Scaled(SolvedValue(<<"downstream", s>>, run))],
   up |-> IF continuous
          THEN LET m == GetUpstreamPredictionMap(node_arr, grid_nx, grid_ny,
                                                 raster_shape, Num(run))
               IN  [q \in DOMAIN m |-> Scaled(m[q])]
          ELSE [s \in nodes |-> Scaled(SolvedValue(<<"upstream", s>>, run))]]

\* the problem is constructed and no call is running on it
ProblemIdle ==
  /\ op = "build" /\ pc = "returned"
  /\ spc = "idle" /\ mc_pc \in {"idle", "returned", "raised"}
  /\ sw_pc = "idle"

\* As SolveBegin, with the primary terms built once more.
SolveBeginRebuilding ==
  /\ ProblemIdle
  /\ caller' = "user"
  /\ spc' = "set_observation"
  /\ entry' = Bindings
  /\ arg_obs' = Unset /\ arg_rates' = Unset /\ arg_strength' = Unset
  /\ outcome' = "none" /\ error' = "none" /\ solver_invoked' = FALSE
  /\ returned' = None
  /\ mc_pc' = "idle"
  /\ num_repeats' = 0 /\ mc_done' = 0
  /\ mc_observation_data' = Unset /\ mc_strength' = Unset
  /\ predictions_down_mc' = << >>
  /\ predictions_up_mc' = << >>
  /\ primary_terms' = primary_terms \o primary_terms
  /\ UNCHANGED <<netVars, passVars, use_regularization, continuous,
                 site_to_observation, site_to_export_rate, site_to_total_flux,
                 regularizer_terms, constraints, regularizer_strength,
                 input_space, solved, gridVars, restVars>>

\* solve is called on a constructed problem
SolveBegin ==
  /\ ProblemIdle
  /\ caller' = "user"
  /\ spc' = "set_observation"
  /\ entry' = Bindings
  /\ arg_obs' = Unset /\ arg_rates' = Unset /\ arg_strength' = Unset
  /\ outcome' = "none" /\ error' = "none" /\ solver_invoked' = FALSE
  /\ returned' = None
  /\ mc_pc' = "idle"
  /\ num_repeats' = 0 /\ mc_done' = 0
  /\ mc_observation_data' = Unset /\ mc_strength' = Unset
  /\ predictions_down_mc' = << >>
  /\ predictions_up_mc' = << >>
  /\ UNCHANGED <<netVars, passVars, problemVars, input_space, solved,
                 gridVars, restVars>>

\* self._set_observation_parameters(observation_data)
SetObservation ==
  /\ spc = "set_observation"
  /\ \E obs \in ObservationArguments :
     \E before \in HandledBefore(DOMAIN obs, DOMAIN site_to_observation) :
       LET r == SetObservationParameters(site_to_observation, obs, before)
       IN  /\ arg_obs' = Dict(obs)
           /\ site_to_observation' = r.val
           /\ error' = r.error
           /\ outcome' = IF r.raised THEN "config_error" ELSE "none"
           /\ spc' = IF r.raised THEN "idle" ELSE "set_export_rate"
  /\ UNCHANGED <<netVars, passVars, use_regularization, continuous, site_to_export_rate,
                 site_to_total_flux, primary_terms, regularizer_terms,
                 constraints, regularizer_strength, entry, arg_rates,
                 arg_strength, solver_invoked, caller, input_space, returned,
                 solved,
                 gridVars, otherVars>>

\* self._set_export_rate_parameters(export_rates)
SetExportRate ==
  /\ spc = "set_export_rate"
  /\ \E rates \in ExportRateArguments :
     \E before \in IF TruthyDict(rates)
                   THEN HandledBefore(DOMAIN rates.f,
                                      DOMAIN site_to_export_rate)
                   ELSE {{}} :
       LET r == SetExportRateParameters(site_to_export_rate, rates, before)
       IN  /\ arg_rates' = rates
           /\ site_to_export_rate' = r.val
           /\ error' = r.error
           /\ outcome' = IF r.raised THEN "config_error" ELSE "none"
           /\ spc' = IF r.raised THEN "idle" ELSE "set_total_flux"
  /\ UNCHANGED <<netVars, passVars, use_regularization, continuous, site_to_observation,
                 site_to_total_flux, primary_terms, regularizer_terms,
                 constraints, regularizer_strength, entry, arg_obs,
                 arg_strength, solver_invoked, caller, input_space, returned,
                 solved,
                 gridVars, otherVars>>

\* self._set_total_flux_parameters()
SetTotalFlux ==
  /\ spc = "set_total_flux"
  /\ LET r == SetTotalFluxParameters(site_to_total_flux, nodes, data,
                                     site_to_export_rate)
     IN  /\ site_to_total_flux' = r.val
         /\ error' = r.error
         /\ outcome' = IF r.raised THEN "error" ELSE "none"
         /\ spc' = IF r.raised THEN "idle" ELSE "check_strength"
  /\ UNCHANGED <<netVars, passVars, use_regularization, continuous, site_to_observation,
                 site_to_export_rate, primary_terms, regularizer_terms,
                 constraints, regularizer_strength, entry, arg_obs, arg_rates,
                 arg_strength, solver_invoked, caller, input_space, returned,
                 solved,
                 gridVars, otherVars>>

\* the rest of solve
SolveFinish ==
  /\ spc = "check_strength"
  /\ \E strength \in StrengthArguments, result \in SolverResults :
       LET r == SolveTail(regularizer_terms, strength, result)
       IN  /\ arg_strength' = strength
           /\ regularizer_strength' =
                IF r.bind THEN strength ELSE regularizer_strength
           /\ solver_invoked' = r.invoked
           /\ outcome' = r.outcome
           /\ error' = r.error
           /\ solved' = IF ~r.invoked \/ result = "solver_error" THEN solved
                        ELSE IF result = "optimal" THEN Num(Run) ELSE None
           /\ returned' = IF r.outcome = "returned" THEN SolveReturn(Run)
                          ELSE None
  /\ spc' = "idle"
  /\ UNCHANGED <<netVars, passVars, use_regularization, continuous,
                 site_to_observation, site_to_export_rate, site_to_total_flux,
                 primary_terms, regularizer_terms, constraints, entry,
                 arg_obs, arg_rates, caller, input_space, gridVars,
                 otherVars>>

\* ------------------------------------------------------ solve_montecarlo
MaxRepeats == 2

\* d[key] += [value] on a defaultdict(list)
AppendTo(d, key, value) ==
  IF key \in DOMAIN d THEN [d EXCEPT ![key] = Append(@, value)]
  ELSE (key :> <<value>>) @@ d

\* As CollectDownstream, keeping only the latest prediction of each sample.
RECURSIVE CollectLatest(_, _, _)
CollectLatest(d, preds, keys) ==
  IF keys = {} THEN d
  ELSE LET key == CHOOSE x \in keys : TRUE
       IN  CollectLatest((key :> <<preds[key]>>) @@ d, preds, keys \ {key})

\* for sample_name in element_pred_down: d[sample_name] += [preds[...]]
RECURSIVE CollectPredictions(_, _, _)
CollectPredictions(d, preds, keys) ==
  IF keys = {} THEN d
  ELSE LET key == CHOOSE x \in keys : TRUE
       IN  CollectPredictions(AppendTo(d, key, preds[key]), preds,
                              keys \ {key})

\* solve_montecarlo is called on a constructed problem
MonteCarloBegin ==
  /\ ProblemIdle
  /\ caller' = "solve_montecarlo"
  /\ \E n \in 0..MaxRepeats :
         \E obs \in ObservationChoices :
         \E strength \in StrengthChoices :
           /\ num_repeats' = n
           /\ mc_observation_data' = Dict(obs)
           /\ mc_strength' = strength
  /\ mc_pc' = "loop"
  /\ mc_done' = 0
  /\ predictions_down_mc' = << >>
  /\ predictions_up_mc' = << >>
  /\ entry' = Unset
  /\ arg_obs' = Unset /\ arg_rates' = Unset /\ arg_strength' = Unset
  /\ outcome' = "none" /\ error' = "none" /\ solver_invoked' = FALSE
  /\ returned' = None
  /\ UNCHANGED <<netVars, passVars, problemVars, spc, input_space, solved,
                 gridVars, restVars>>

\* the call of solve in one repeat of the loop
MonteCarloCall ==
  /\ mc_pc = "loop" /\ spc = "idle"
  /\ returned = None /\ outcome \in {"none", "returned"}
  /\ mc_done < num_repeats
  /\ spc' = "set_observation"
  /\ entry' = Bindings
  /\ arg_obs' = Unset /\ arg_rates' = Unset /\ arg_strength' = Unset
  /\ outcome' = "none" /\ error' = "none" /\ solver_invoked' = FALSE
  /\ UNCHANGED <<netVars, passVars, problemVars, caller, input_space,
                 returned, solved, gridVars, otherVars>>

\* the rest of the repeat: the predictions solve returned are appended;
\* an exception of solve ends solve_montecarlo
MonteCarloCollect ==
  /\ mc_pc = "loop" /\ spc = "idle"
  /\ returned # None \/ outcome \notin {"none", "returned"}
  /\ IF returned # None
     THEN /\ predictions_down_mc' =
               CollectPredictions(predictions_down_mc, returned.down,
                                  DOMAIN returned.down)
          /\ predictions_up_mc' =
               IF continuous THEN Append(predictions_up_mc, returned.up)
               ELSE CollectPredictions(predictions_up_mc, returned.up,
                                       DOMAIN returned.down)
          /\ mc_done' = mc_done + 1
          /\ mc_pc' = "loop"
          /\ returned' = None
     ELSE /\ mc_pc' = "raised"
          /\ UNCHANGED <<predictions_down_mc, predictions_up_mc, mc_done,
                         returned>>
  /\ UNCHANGED <<netVars, passVars, problemVars, spc, entry, arg_obs,
                 arg_rates, arg_strength, outcome, error, solver_invoked,
                 caller, input_space, solved, gridVars, restVars,
                 num_repeats, mc_observation_data, mc_strength>>

\* return predictions_down_mc, predictions_up_mc
MonteCarloReturn ==
  /\ mc_pc = "loop" /\ spc = "idle"
  /\ returned = None /\ outcome \in {"none", "returned"}
  /\ mc_done >= num_repeats
  /\ mc_pc' = "returned"
  /\ UNCHANGED <<netVars, passVars, problemVars, solveVars, gridVars,
                 restVars, num_repeats, mc_done, mc_observation_data,
                 mc_strength, predictions_down_mc, predictions_up_mc>>

\* The problem is constructed on a chain of sites, each draining into the
\* next, with areas 1, 2, ...
InitSolve ==
  /\ NoSolve /\ NoGrid /\ NoOther
  /\ input_space = "any"
  /\ nodes = 1..NumSites
  /\ edges = {e \in nodes \X nodes : e[2] = e[1] + 1}
  /\ data = [n \in nodes |-> SampleNode(n, n)]
  /\ op = "build" /\ pc = "start"
  /\ visited = {}
  /\ mixed_downstream_pred = << >>
  /\ mixed_upstream_pred = << >>
  /\ export_rates = None
  /\ concentration = [n \in nodes |-> 0]
  /\ use_regularization \in BOOLEAN
  /\ continuous = FALSE
  /\ site_to_observation = << >>
  /\ site_to_export_rate = << >>
  /\ site_to_total_flux = << >>
  /\ primary_terms = << >>
  /\ regularizer_terms = << >>
  /\ constraints = << >>
  /\ regularizer_strength = None

NextSolve ==
  \/ BuildBegin
  \/ BuildStep
  \/ BuildEnd
  \/ SolveBegin
  \/ SetObservation
  \/ SetExportRate
  \/ SetTotalFlux
  \/ SolveFinish

SpecSolve == InitSolve /\ [][NextSolve]_vars

\* --------------------------------------------------------- InverseGrid
MaxColumns == 2

RasterRows == {1, 2}
\* the sample sites of the network, each with its own label
GridSites == {1, 2}

\* the rasters of a shape, every pixel unclaimed or labelled with a site
Rasters(rows, cols) ==
  [(0..(rows - 1)) \X (0..(cols - 1)) -> {Unclaimed} \cup GridSites]

\* As GridBoundsCheck, comparing both nx and ny with the width.
GridBoundsCheckWidthOnly(nx_, ny_, xmax, ymax) ==
  IF nx_ <= 0 \/ ny_ <= 0 THEN "not_positive"
  ELSE IF ny_ > xmax \/ nx_ > xmax THEN "resolution"
  ELSE "none"

\* the two checks that open InverseGrid.__init__
GridBoundsCheck(nx_, ny_, xmax, ymax) ==
  IF nx_ <= 0 \/ ny_ <= 0 THEN "not_positive"
  ELSE IF ny_ > ymax \/ nx_ > xmax THEN "resolution"
  ELSE "none"

\* int(np.linspace(step / 2, max - step / 2, n)[i]) with step = max / n:
\* the pixel of the centre (i + 1/2) * max / n of the i-th of n cells
CentrePixel(i, n, max) == ((2 * i + 1) * max) \div (2 * n)

\* area_label_to_sample_name
AreaLabelToSampleName(N, d) ==
  [l \in {d[n].label : n \in N} |-> CHOOSE n \in N : d[n].label = l]

\* As NodeRef, with no reference taken.
NodeRefUnwired(arr, j, i) == None

\* a reference to the InverseNode stored at node_arr[j, i], or None
NodeRef(arr, j, i) ==
  IF arr[<<j, i>>] = None THEN None ELSE [k |-> "node", j |-> j, i |-> i]

\* len(np.unique(self.area_labels))
NumUnique(labels) == Cardinality({labels[q] : q \in DOMAIN labels})

\* the check that closes InverseGrid.__init__
CatchmentCheck(stn, labels) ==
  IF Cardinality(DOMAIN stn) < NumUnique(labels) - 1
  THEN "empty_catchment" ELSE "none"

\* InverseGrid.__init__ up to its loops
GridBegin ==
  /\ continuous /\ op = "build" /\ pc = "start"
  /\ gpc = "start"
  /\ LET err == GridBoundsCheck(grid_nx, grid_ny,
                                raster_shape[2], raster_shape[1])
     IN  /\ gerror' = err
         /\ gpc' = IF err = "none" THEN "sweep" ELSE "raised"
         /\ node_arr' =
              IF err = "none"
              THEN [q \in (0..(grid_ny - 1)) \X (0..(grid_nx - 1)) |-> None]
              ELSE node_arr
  /\ sites_to_nodes' = << >>
  /\ gi' = 0 /\ gj' = 0
  /\ UNCHANGED <<netVars, passVars, problemVars, solveVars, otherVars, grid_nx,
                 grid_ny,
                 area_labels, raster_shape>>

\* one iteration of the loops: the node of column gi, row gj
GridStep ==
  /\ gpc = "sweep" /\ gi < grid_nx
  /\ LET left  == IF gi > 0 THEN NodeRef(node_arr, gj, gi - 1) ELSE None
         top   == IF gj > 0 THEN NodeRef(node_arr, gj - 1, gi) ELSE None
         label == area_labels[<<CentrePixel(gj, grid_ny, raster_shape[1]),
                                CentrePixel(gi, grid_nx, raster_shape[2])>>]
         name  == IF label # Unclaimed
                  THEN AreaLabelToSampleName(nodes, data)[label]
                  ELSE NaNName
         node  == [left_neighbour |-> left, top_neighbour |-> top,
                   sample_name |-> name, concentration |-> Var]
     IN  /\ node_arr' = [node_arr EXCEPT ![<<gj, gi>>] = node]
         /\ sites_to_nodes' =
              IF name \in DOMAIN sites_to_nodes
              THEN [sites_to_nodes EXCEPT ![name] = Append(@, <<gj, gi>>)]
              ELSE (name :> << <<gj, gi>> >>) @@ sites_to_nodes
  /\ IF gj + 1 < grid_ny
     THEN gj' = gj + 1 /\ gi' = gi
     ELSE gj' = 0 /\ gi' = gi + 1
  /\ UNCHANGED <<netVars, passVars, problemVars, solveVars, otherVars, grid_nx,
                 grid_ny,
                 area_labels, raster_shape, gpc, gerror>>

\* the end of InverseGrid.__init__
GridFinish ==
  /\ gpc = "sweep" /\ gi = grid_nx
  /\ LET err == CatchmentCheck(sites_to_nodes, area_labels)
     IN  /\ gerror' = err
         /\ gpc' = IF err = "none" THEN "constructed" ELSE "raised"
  /\ UNCHANGED <<netVars, passVars, problemVars, solveVars, otherVars, grid_nx,
                 grid_ny,
                 area_labels, raster_shape, gi, gj, node_arr, sites_to_nodes>>

InitGrid ==
  /\ NoSolve /\ NoOther
  /\ input_space = "complete"
  /\ nodes = GridSites
  /\ edges = {}
  /\ data = [n \in nodes |-> SampleNode(1, n)]
  /\ op = "build" /\ pc = "start"
  /\ visited = {}
  /\ mixed_downstream_pred = << >>
  /\ mixed_upstream_pred = << >>
  /\ export_rates = None
  /\ concentration = [n \in nodes |-> 0]
  /\ use_regularization \in BOOLEAN
  /\ continuous = TRUE
  /\ site_to_observation = << >>
  /\ site_to_export_rate = << >>
  /\ site_to_total_flux = << >>
  /\ primary_terms = << >>
  /\ regularizer_terms = << >>
  /\ constraints = << >>
  /\ regularizer_strength = None
  /\ \E rows \in RasterRows, cols \in 1..MaxColumns :
       /\ raster_shape = <<rows, cols>>
       /\ area_labels \in Rasters(rows, cols)
       /\ grid_nx \in (-1)..(cols + 1)
       /\ grid_ny \in (-1)..(rows + 1)
  /\ gpc = "start" /\ gerror = "none"
  /\ gi = 0 /\ gj = 0
  /\ node_arr = << >>
  /\ sites_to_nodes = << >>

NextGrid ==
  \/ GridBegin
  \/ GridStep
  \/ GridFinish
  \/ BuildBegin
  \/ BuildStep
  \/ BuildEnd
  \/ SolveBegin
  \/ SetObservation
  \/ SetExportRate
  \/ SetTotalFlux
  \/ SolveFinish

SpecGrid == InitGrid /\ [][NextGrid]_vars

\* ------------------------------------- calls on a constructed problem
\* the raster of a chain of sites: one row, a column for each site
ChainRaster(N) == [q \in {0} \X (0..(Cardinality(N) - 1)) |-> q[2] + 1]

\* The problem is constructed, discrete or continuous, on a chain of sites;
\* a continuous one on a grid with a node in each site's catchment.
InitMonteCarlo ==
  /\ NoSolve /\ NoOther
  /\ input_space = "few"
  /\ nodes = 1..NumSites
  /\ edges = {e \in nodes \X nodes : e[2] = e[1] + 1}
  /\ data = [n \in nodes |-> SampleNode(n, n)]
  /\ op = "build" /\ pc = "start"
  /\ visited = {}
  /\ mixed_downstream_pred = << >>
  /\ mixed_upstream_pred = << >>
  /\ export_rates = None
  /\ concentration = [n \in nodes |-> 0]
  /\ use_regularization \in BOOLEAN
  /\ continuous \in BOOLEAN
  /\ site_to_observation = << >>
  /\ site_to_export_rate = << >>
  /\ site_to_total_flux = << >>
  /\ primary_terms = << >>
  /\ regularizer_terms = << >>
  /\ constraints = << >>
  /\ regularizer_strength = None
  /\ IF continuous
     THEN /\ grid_nx = NumSites /\ grid_ny = 1
          /\ area_labels = ChainRaster(nodes)
          /\ raster_shape = <<1, NumSites>>
          /\ gpc = "start" /\ gerror = "none"
          /\ gi = 0 /\ gj = 0
          /\ node_arr = << >>
          /\ sites_to_nodes = << >>
     ELSE NoGrid

NextMonteCarlo ==
  \/ GridBegin
  \/ GridStep
  \/ GridFinish
  \/ BuildBegin
  \/ BuildStep
  \/ BuildEnd
  \/ SolveBegin
  \/ SetObservation
  \/ SetExportRate
  \/ SetTotalFlux
  \/ SolveFinish
  \/ MonteCarloBegin
  \/ MonteCarloCall
  \/ MonteCarloCollect
  \/ MonteCarloReturn

SpecMonteCarlo == InitMonteCarlo /\ [][NextMonteCarlo]_vars

\* ------------------------------------------ a network used by others
\* get_downstream_prediction_dictionary: the quotient of the values of
\* the totals the nodes hold now. A float has no .value; an expression of
\* another problem, not solved, has the value None, and None / None
\* raises TypeError
GetDownstreamPredictionDictionary(N, d, sol) ==
  IF \E n \in N : d[n].my_total_tracer_flux.k # "expr"
  THEN [raised |-> TRUE, error |-> "attribute_error"]
  ELSE IF \E n \in N : d[n].my_export_rate # Param
  THEN [raised |-> TRUE, error |-> "type_error"]
  ELSE [raised |-> FALSE,
        val |-> [s \in N |-> SolvedValue(<<"downstream", s>>, sol.v)]]

\* get_upstream_prediction_dictionary of a discrete problem: the value of
\* the tracer value each node holds now
GetUpstreamPredictionDictionary(N, d, sol) ==
  IF \E n \in N : d[n].my_tracer_value.k = "num"
  THEN [raised |-> TRUE, error |-> "attribute_error"]
  ELSE [raised |-> FALSE,
        val |-> [s \in N |-> IF d[s].my_tracer_value = Var
                             THEN SolvedValue(<<"upstream", s>>, sol.v)
                             ELSE None]]

\* mix_downstream is called on the network of the problem
MixDownstreamOnNetwork ==
  /\ ProblemIdle /\ interfered = "none"
  /\ \E rates \in {None, Dict([n \in nodes |-> 1 + (n % 2)])} :
     \E conc \in ConcMaps(nodes) :
       LET r == MixDownstream(nodes, edges, data, rates, conc)
       IN  /\ export_rates' = rates
           /\ concentration' = conc
           /\ data' = r.data
           /\ mixed_downstream_pred' = r.down
           /\ mixed_upstream_pred' = r.up
  /\ interfered' = "mix_downstream"
  /\ UNCHANGED <<nodes, edges, op, pc, visited, problemVars, solveVars,
                 gridVars, paramVars, graphVars, sweepVars, mcVars,
                 repeatVars, got, obsVars, cellVars>>

\* a second SampleNetworkUnmixer is constructed on the network of the
\* problem: its _build_primary_terms gives the nodes the totals, export
\* rates and tracer values of the new problem
ConstructSecondProblem ==
  /\ ProblemIdle /\ interfered = "none"
  /\ LET r == BuildPrimaryTerms(nodes, edges, data)
     IN  data' = [n \in nodes |->
                   [r.data[n] EXCEPT !.my_export_rate = OtherParam,
                                     !.my_tracer_value = OtherVar]]
  /\ interfered' = "second_problem"
  /\ UNCHANGED <<nodes, edges, passVars, problemVars, solveVars, gridVars,
                 paramVars, graphVars, sweepVars, mcVars, repeatVars, got,
                 obsVars, cellVars>>

\* the two prediction getters are called on the problem after a solve
GetPredictions ==
  /\ ProblemIdle /\ solved.k = "num"
  /\ got' = [run |-> solved.v,
             down |-> GetDownstreamPredictionDictionary(nodes, data, solved),
             up |-> GetUpstreamPredictionDictionary(nodes, data, solved)]
  /\ UNCHANGED <<netVars, passVars, problemVars, solveVars, gridVars,
                 paramVars, graphVars, sweepVars, mcVars, repeatVars,
                 interfered, obsVars, cellVars>>

\* A discrete problem without regularization is constructed on a chain of
\* sites.
InitShared ==
  /\ NoSolve /\ NoGrid /\ NoOther /\ NoProblem
  /\ input_space = "few"
  /\ nodes = 1..NumSites
  /\ edges = {e \in nodes \X nodes : e[2] = e[1] + 1}
  /\ data = [n \in nodes |-> SampleNode(n, n)]
  /\ op = "build" /\ pc = "start"
  /\ visited = {}
  /\ mixed_downstream_pred = << >>
  /\ mixed_upstream_pred = << >>
  /\ export_rates = None
  /\ concentration = [n \in nodes |-> 0]

NextShared ==
  \/ BuildBegin
  \/ BuildStep
  \/ BuildEnd
  \/ SolveBegin
  \/ SetObservation
  \/ SetExportRate
  \/ SetTotalFlux
  \/ SolveFinish
  \/ GetPredictions
  \/ MixDownstreamOnNetwork
  \/ ConstructSecondProblem

SpecShared == InitShared /\ [][NextShared]_vars

\* -------------------------------------------------------- get_element_obs
MaxSamples == 4

\* The cells of a column as obs_data[element].tolist() gives them: the
\* floats of a numeric column, with nan where the cell is missing; the
\* ints of a column of whole numbers, which has no missing cell; the
\* strings of a column that holds text, again with nan where a cell is
\* missing.
FloatCell(v) == [k |-> "float", nan |-> FALSE, v |-> v]
NaNCell == [k |-> "float", nan |-> TRUE, v |-> 0]
IntCell(v) == [k |-> "int", nan |-> FALSE, v |-> v]
StrCell == [k |-> "str", nan |-> FALSE, v |-> 0]

Columns(S) ==
  [S -> {FloatCell(1), FloatCell(2), NaNCell}]
    \cup [S -> {IntCell(1), IntCell(2)}]
    \cup [S -> {StrCell, NaNCell}]

\* isinstance(c, float)
IsInstanceFloat(c) == c.k = "float"

\* get_element_obs: the sample codes zipped with the cells, keeping the
\* pairs whose cell is an instance of float
GetElementObs(cells) ==
  LET kept == {e \in DOMAIN cells : IsInstanceFloat(cells[e])}
  IN  [e \in kept |-> cells[e]]

GetElementObsCall ==
  /\ obs_element_data = Unset
  /\ obs_element_data' = Dict(GetElementObs(obs_cells))
  /\ UNCHANGED <<netVars, passVars, problemVars, solveVars, gridVars,
                 paramVars, graphVars, sweepVars, mcVars, repeatVars,
                 sharedVars, obs_cells, cellVars>>

InitObs ==
  /\ NoSolve /\ NoGrid /\ NoParam /\ NoMonteCarlo /\ NoGraph /\ NoSweep
  /\ NoRepeat /\ NoShared /\ NoCells /\ NoProblem
  /\ input_space = "any"
  /\ nodes = {} /\ edges = {} /\ data = << >>
  /\ op = "mix" /\ pc = "start"
  /\ visited = {}
  /\ mixed_downstream_pred = << >>
  /\ mixed_upstream_pred = << >>
  /\ export_rates = None
  /\ concentration = << >>
  /\ obs_cells \in Columns(1..MaxSamples)
  /\ obs_element_data = Unset

NextObs == GetElementObsCall

SpecObs == InitObs /\ [][NextObs]_vars

\* ------------------------------------------- the pixels of a grid cell
MaxSide == 5

\* InverseGrid.__init__, the pixel whose label the cell of row gj and
\* column gi takes: area_labels[int(y_coord), int(x_coord)]
SampleCentre ==
  /\ centre_pixel = Unset
  /\ centre_pixel' = <<CentrePixel(gj, grid_ny, raster_shape[1]),
                       CentrePixel(gi, grid_nx, raster_shape[2])>>
  /\ UNCHANGED <<netVars, passVars, problemVars, solveVars, gridVars,
                 paramVars, graphVars, sweepVars, mcVars, repeatVars,
                 sharedVars, obsVars, block_pixels>>

\* get_upstream_prediction_map, the block it fills for the same cell:
\* out[y_start:y_end, x_start:x_end]
FillBlock ==
  /\ block_pixels = Unset
  /\ block_pixels' =
       [y_start |-> BlockStart(gj, grid_ny, raster_shape[1]),
        y_end   |-> BlockStart(gj + 1, grid_ny, raster_shape[1]),
        x_start |-> BlockStart(gi, grid_nx, raster_shape[2]),
        x_end   |-> BlockStart(gi + 1, grid_nx, raster_shape[2])]
  /\ UNCHANGED <<netVars, passVars, problemVars, solveVars, gridVars,
                 paramVars, graphVars, sweepVars, mcVars, repeatVars,
                 sharedVars, obsVars, centre_pixel>>

\* A cell of a grid of any admissible resolution on a raster of any size.
InitCells ==
  /\ NoSolve /\ NoParam /\ NoMonteCarlo /\ NoGraph /\ NoSweep
  /\ NoRepeat /\ NoShared /\ NoObs /\ NoCells /\ NoProblem
  /\ input_space = "any"
  /\ nodes = {} /\ edges = {} /\ data = << >>
  /\ op = "build" /\ pc = "start"
  /\ visited = {}
  /\ mixed_downstream_pred = << >>
  /\ mixed_upstream_pred = << >>
  /\ export_rates = None
  /\ concentration = << >>
  /\ raster_shape \in (1..MaxSide) \X (1..MaxSide)
  /\ grid_ny \in 1..raster_shape[1]
  /\ grid_nx \in 1..raster_shape[2]
  /\ gj \in 0..(grid_ny - 1)
  /\ gi \in 0..(grid_nx - 1)
  /\ area_labels = << >>
  /\ gpc = "sweep" /\ gerror = "none"
  /\ node_arr = << >>
  /\ sites_to_nodes = << >>

NextCells ==
  \/ SampleCentre
  \/ FillBlock

SpecCells == InitCells /\ [][NextCells]_vars

\* ---------------------------------------------------------- process_data
MaxElements == 3

\* process_data has constructed its problem and enters its loop
SweepBegin ==
  /\ ProblemIdle
  /\ caller' = "process_data"
  /\ sw_pc' = "loop"
  /\ sw_element' = 0
  /\ element_data' = Unset
  /\ results' = << >>
  /\ solver_failed' = {}
  /\ UNCHANGED <<netVars, passVars, problemVars, spc, entry, arg_obs,
                 arg_rates, arg_strength, outcome, error, solver_invoked,
                 input_space, returned, solved, gridVars, paramVars,
                 graphVars, mcVars, lateVars>>

\* the next element: passed over if the data have no column for it, or
\* its observations are read and solve is called
SweepNext ==
  /\ sw_pc = "loop" /\ spc = "idle" /\ outcome = "none"
  /\ sw_element < MaxElements
  /\ \/ /\ sw_element' = sw_element + 1
        /\ UNCHANGED <<element_data, spc, entry, arg_obs, arg_rates,
                       arg_strength, error, solver_invoked>>
     \/ /\ \E obs \in ObservationChoices : element_data' = Dict(obs)
        /\ spc' = "set_observation"
        /\ entry' = Bindings
        /\ arg_obs' = Unset /\ arg_rates' = Unset /\ arg_strength' = Unset
        /\ error' = "none" /\ solver_invoked' = FALSE
        /\ UNCHANGED sw_element
  /\ UNCHANGED <<netVars, passVars, problemVars, outcome, caller,
                 input_space, returned, solved, gridVars, paramVars,
                 graphVars, mcVars, lateVars, sw_pc, results, solver_failed>>

\* what the loop does after solve: the columns of the element are
\* recorded when solve returned, a cp.error.SolverError is caught and the
\* element skipped, and any other exception ends process_data
SweepAfterSolve(how) ==
  CASE how = "returned"     -> "record"
    [] how = "solver_error" -> "skip"
    [] OTHER                -> "raise"

\* the rest of the iteration
SweepCollect ==
  /\ sw_pc = "loop" /\ spc = "idle" /\ outcome # "none"
  /\ LET e    == sw_element + 1
         todo == SweepAfterSolve(outcome)
     IN  /\ results' = IF todo = "record" THEN Append(results, e)
                       ELSE results
         /\ solver_failed' =
              IF solver_invoked /\ outcome # "returned"
              THEN solver_failed \cup {e} ELSE solver_failed
         /\ sw_pc' = IF todo = "raise" THEN "raised" ELSE "loop"
         /\ sw_element' = IF todo = "raise" THEN sw_element ELSE e
         /\ outcome' = IF todo = "raise" THEN outcome ELSE "none"
  /\ returned' = None
  /\ UNCHANGED <<netVars, passVars, problemVars, spc, entry, arg_obs,
                 arg_rates, arg_strength, error, solver_invoked, caller,
                 input_space, solved, gridVars, paramVars, graphVars, mcVars, lateVars,
                 element_data>>

\* return results
SweepReturn ==
  /\ sw_pc = "loop" /\ spc = "idle" /\ outcome = "none"
  /\ sw_element >= MaxElements
  /\ sw_pc' = "returned"
  /\ UNCHANGED <<netVars, passVars, problemVars, solveVars, gridVars,
                 paramVars, graphVars, mcVars, lateVars, sw_element, element_data,
                 results, solver_failed>>

\* process_data constructs a discrete problem with regularization
InitSweep ==
  /\ NoSolve /\ NoGrid /\ NoOther
  /\ input_space = "few"
  /\ nodes = 1..NumSites
  /\ edges = {e \in nodes \X nodes : e[2] = e[1] + 1}
  /\ data = [n \in nodes |-> SampleNode(n, n)]
  /\ op = "build" /\ pc = "start"
  /\ visited = {}
  /\ mixed_downstream_pred = << >>
  /\ mixed_upstream_pred = << >>
  /\ export_rates = None
  /\ concentration = [n \in nodes |-> 0]
  /\ use_regularization = TRUE
  /\ continuous = FALSE
  /\ site_to_observation = << >>
  /\ site_to_export_rate = << >>
  /\ site_to_total_flux = << >>
  /\ primary_terms = << >>
  /\ regularizer_terms = << >>
  /\ constraints = << >>
  /\ regularizer_strength = None

NextSweep ==
  \/ BuildBegin
  \/ BuildStep
  \/ BuildEnd
  \/ SweepBegin
  \/ SweepNext
  \/ SetObservation
  \/ SetExportRate
  \/ SetTotalFlux
  \/ SolveFinish
  \/ SweepCollect
  \/ SweepReturn

SpecSweep == InitSweep /\ [][NextSweep]_vars

\* ------------------------------------------------------ get_sample_graphs
MaxRecords == 3

\* pyfastunmix.root_node_name
RootName == 0

\* The records of the routing engine: a record for each of some names,
\* with or without one for the root, each naming as its downstream node
\* another record or the root.
RawNetworks ==
  UNION {[R -> R \cup {RootName}] : R \in SUBSET (0..MaxRecords)}

\* As AddRecord, taking the root for a record like any other.
AddRecordWithRoot(N, E, d, name, ds) ==
  [nodes |-> N \cup {name, ds},
   edges |-> E \cup {<<name, ds>>},
   data  |-> (name :> [name |-> name, downstream_node |-> ds]) @@ d]

\* one iteration of the loop of get_sample_graphs: the root is passed
\* over; any other record becomes a node, with an edge to its downstream
\* node unless that is the root (add_edge adds the node it leads to)
AddRecord(N, E, d, name, ds) ==
  IF name = RootName THEN [nodes |-> N, edges |-> E, data |-> d]
  ELSE [nodes |-> N \cup {name} \cup (IF ds # RootName THEN {ds} ELSE {}),
        edges |-> E \cup (IF ds # RootName THEN {<<name, ds>>} ELSE {}),
        data  |-> (name :> [name |-> name, downstream_node |-> ds]) @@ d]

\* sample_network = nx.DiGraph()
GraphBegin ==
  /\ graph_pc = "start"
  /\ graph_pc' = "loop"
  /\ nodes' = {} /\ edges' = {} /\ data' = << >>
  /\ processed' = {}
  /\ UNCHANGED <<passVars, problemVars, solveVars, gridVars, paramVars,
                 mcVars, lateVars, sweepVars, sample_network_raw>>

GraphStep ==
  /\ graph_pc = "loop"
  /\ \E x \in DOMAIN sample_network_raw \ processed :
       LET g == AddRecord(nodes, edges, data, x, sample_network_raw[x])
       IN  /\ nodes' = g.nodes
           /\ edges' = g.edges
           /\ data' = g.data
           /\ processed' = processed \cup {x}
  /\ UNCHANGED <<passVars, problemVars, solveVars, gridVars, paramVars,
                 mcVars, lateVars, sweepVars, sample_network_raw, graph_pc>>

GraphReturn ==
  /\ graph_pc = "loop"
  /\ processed = DOMAIN sample_network_raw
  /\ graph_pc' = "returned"
  /\ UNCHANGED <<netVars, passVars, problemVars, solveVars, gridVars,
                 paramVars, mcVars, lateVars, sweepVars, sample_network_raw,
                 processed>>

InitGraph ==
  /\ NoSolve /\ NoGrid /\ NoParam /\ NoMonteCarlo /\ NoSweep /\ NoLate
  /\ input_space = "any"
  /\ sample_network_raw \in RawNetworks
  /\ processed = {}
  /\ graph_pc = "start"
  /\ nodes = {} /\ edges = {} /\ data = << >>
  /\ op = "mix" /\ pc = "start"
  /\ visited = {}
  /\ mixed_downstream_pred = << >>
  /\ mixed_upstream_pred = << >>
  /\ export_rates = None
  /\ concentration = << >>
  /\ NoProblem

NextGraph ==
  \/ GraphBegin
  \/ GraphStep
  \/ GraphReturn

SpecGraph == InitGraph /\ [][NextGraph]_vars

\* ------------------------------------------------- ReciprocalParameter
MaxAssignments == 3

\* the values assigned to a ReciprocalParameter, and those of a variable
ParamValues == {None} \cup {Num(v) : v \in 0..3}
PositiveValues == {Num(v) : v \in 1..3}

\* a number as a fraction
AsFrac(x) == IF x.k = "num" THEN Frac(x.v, 1) ELSE x
FracMul(a, b) == Frac(a.n * b.n, a.d * b.d)
FracLeq(a, b) == a.n * b.d <= b.n * a.d
\* cp.maximum of two values
Maximum(a, b) == IF FracLeq(a, b) THEN b ELSE a

\* the setter of ReciprocalParameter.value: _p is assigned first, then
\* _rp, with 1 / val raising ZeroDivisionError for a val of 0
ReciprocalParameterSet(old, val) ==
  IF val = None THEN [p |-> None, rp |-> None, raised |-> FALSE]
  ELSE IF val.v = 0 THEN [p |-> val, rp |-> old.rp, raised |-> TRUE]
  ELSE [p |-> val, rp |-> Reciprocal(val), raised |-> FALSE]

\* As cp_log_ratio, without the second argument of the maximum.
CpLogRatioOneSided(a, b) == FracMul(AsFrac(a), AsFrac(b.rp))

\* cp_log_ratio(a, b): cp.maximum(a * b.rp, b.p * cp.inv_pos(a))
CpLogRatio(a, b) ==
  Maximum(FracMul(AsFrac(a), AsFrac(b.rp)),
          FracMul(AsFrac(b.p), AsFrac(Reciprocal(a))))

\* parameter.value = val
AssignValue ==
  /\ Len(assigned) < MaxAssignments
  /\ \E val \in ParamValues :
       LET r == ReciprocalParameterSet(rparam, val)
       IN  /\ rparam' = [p |-> r.p, rp |-> r.rp]
           /\ zero_division' = r.raised
           /\ assigned' = Append(assigned, val)
  /\ UNCHANGED <<netVars, passVars, problemVars, solveVars, gridVars,
                 mcVars, lateVars, graphVars, sweepVars, ratio_a, ratio_b, log_ratio>>

\* the value of cp_log_ratio(a, parameter) for a variable of value a
EvaluateLogRatio ==
  /\ rparam.p # None /\ rparam.rp # None
  /\ \E a \in PositiveValues :
       /\ ratio_a' = a
       /\ ratio_b' = rparam
       /\ log_ratio' = CpLogRatio(a, rparam)
  /\ UNCHANGED <<netVars, passVars, problemVars, solveVars, gridVars,
                 mcVars, lateVars, graphVars, sweepVars, rparam, assigned,
                 zero_division>>

\* a ReciprocalParameter has been constructed
InitParam ==
  /\ NoSolve /\ NoGrid /\ NoOther
  /\ input_space = "any"
  /\ nodes = {} /\ edges = {} /\ data = << >>
  /\ op = "mix" /\ pc = "start"
  /\ visited = {}
  /\ mixed_downstream_pred = << >>
  /\ mixed_upstream_pred = << >>
  /\ export_rates = None
  /\ concentration = << >>
  /\ NoProblem

NextParam ==
  \/ AssignValue
  \/ EvaluateLogRatio

SpecParam == InitParam /\ [][NextParam]_vars

\* ------------------------------------------------------------- claims
\* The upstream closure of n: n and every node with a path to n.
RECURSIVE UpstreamClosure(_, _)
UpstreamClosure(E, n) ==
  {n} \cup UNION {UpstreamClosure(E, u) : u \in Predecessors(E, n)}

\* the export rate mix_downstream was given for u
ExportRateOf(u) == IF TruthyDict(export_rates) THEN export_rates.f[u] ELSE 1

AtMostOneDownstream == \A n \in nodes : Cardinality(Successors(edges, n)) <= 1

\* C1: when a pass over the network has returned, every node's total flux
\* is the sum of area * exportRate over its upstream closure, itself
\* included, and its total tracer flux the sum of area * exportRate *
\* tracerValue over the same nodes. In the problem builder, where rates and
\* tracer values are symbols, the totals hold exactly one term per node of
\* the closure and none of any other node.
C1_Conservation ==
  pc = "returned" =>
    \A n \in nodes :
      LET up == UpstreamClosure(edges, n)
      IN  IF op = "mix"
          THEN /\ data[n].my_total_flux =
                    Float(nodes, SumOver(up, [u \in nodes |->
                           data[u].area * ExportRateOf(u)]))
               /\ data[n].my_total_tracer_flux =
                    Float(nodes, SumOver(up, [u \in nodes |->
                           data[u].area * ExportRateOf(u) * concentration[u]]))
          ELSE /\ data[n].my_total_flux =
                    Expr(0, [u \in nodes |-> IF u \in up THEN 1 ELSE 0])
               /\ data[n].my_total_tracer_flux =
                    Expr(0, [u \in nodes |-> IF u \in up THEN 1 ELSE 0])

\* mix_downstream has returned on a network where one node collects from
\* all the others, not all directly, with unequal rates and tracer values
C1_Witness ==
  /\ op = "mix" /\ pc = "returned"
  /\ TruthyDict(export_rates)
  /\ \E u, v \in nodes : export_rates.f[u] # export_rates.f[v]
  /\ \E u, v \in nodes : concentration[u] # concentration[v]
  /\ \E n \in nodes :
       /\ UpstreamClosure(edges, n) = nodes
       /\ Predecessors(edges, n) # nodes \ {n}

SolveEnded == spc = "idle" /\ outcome # "none"

\* C3: a solve given strength 0 on a problem with regularizer terms does
\* not end in a configuration error.
C3_ZeroStrengthSucceeds ==
  (SolveEnded /\ arg_strength = Num(0) /\ regularizer_terms # << >>)
    => outcome # "config_error"

C5_NoPartialBinding ==
  (SolveEnded /\ outcome = "config_error") => Bindings = entry

\* C6: the solver has not been called in a solve that ends in a
\* configuration error, and is called only as the last step of a solve.
C6_ErrorsBeforeSolver ==
  /\ outcome = "config_error" => ~solver_invoked
  /\ solver_invoked =>
       spc = "idle" /\ outcome \in {"returned", "solver_error", "type_error"}

\* a solve whose observations and export rates were bound ended in the
\* configuration error of the missing strength
C6_Witness ==
  /\ SolveEnded /\ outcome = "config_error" /\ error = "no_strength"
  /\ ~solver_invoked
  /\ \A s \in nodes : site_to_total_flux[s].p # None

ObservationErrors == {"unknown_observation_site", "missing_observation"}

\* C10: once solve has bound the observations, the binding has failed if
\* a site of the problem has no observation or an observation names a
\* site the problem does not know, and otherwise every site of the
\* problem has a value bound, the observation over the geometric mean.
C10_ObservationBinding ==
  arg_obs # Unset =>
    LET given == DOMAIN arg_obs.f
        known == DOMAIN site_to_observation
        failed == error \in ObservationErrors
    IN  /\ known = nodes
        /\ failed => SolveEnded /\ outcome = "config_error"
        /\ (known \ given # {}) => failed
        /\ (given \ known # {}) => error = "unknown_observation_site"
        /\ ~failed =>
             \A s \in known :
               /\ site_to_observation[s].p # None
               /\ site_to_observation[s].p = Normalised(arg_obs.f, s)

\* the observations of every site were bound, and the solve went on
C10_Witness ==
  /\ spc = "set_export_rate"
  /\ arg_obs # Unset
  /\ DOMAIN arg_obs.f = nodes
  /\ \A s \in nodes : site_to_observation[s].p # None

\* the catchments of the raster, and those with a node of the grid
RasterCatchments == {area_labels[q] : q \in DOMAIN area_labels} \ {Unclaimed}
CatchmentsWithNodes ==
  {s \in DOMAIN sites_to_nodes : sites_to_nodes[s] # << >>} \ {NaNName}

\* C8: no InverseGrid is constructed in which a catchment of the raster
\* has no node.
C8_EmptyCatchmentFails ==
  gpc = "constructed" => RasterCatchments \subseteq CatchmentsWithNodes

GridArgumentsInBounds ==
  /\ 1 <= grid_nx /\ grid_nx <= raster_shape[2]
  /\ 1 <= grid_ny /\ grid_ny <= raster_shape[1]

\* C9: a construction with nx or ny not positive, or above the raster's
\* width or height, raises at its opening checks with no node created;
\* with nx in 1..width and ny in 1..height it passes them.
C9_ResolutionBounds ==
  /\ ~GridArgumentsInBounds =>
       /\ gpc \in {"start", "raised"}
       /\ node_arr = << >> /\ sites_to_nodes = << >>
       /\ gpc = "raised" => gerror \in {"not_positive", "resolution"}
       /\ gerror = "not_positive" <=>
            (gpc = "raised" /\ (grid_nx <= 0 \/ grid_ny <= 0))
  /\ GridArgumentsInBounds => gerror \notin {"not_positive", "resolution"}

\* a construction has raised for a resolution above the raster's height
\* alone
C9_Witness ==
  /\ gpc = "raised" /\ gerror = "resolution"
  /\ grid_nx >= 1 /\ grid_nx <= raster_shape[2]
  /\ grid_ny > raster_shape[1]
  /\ node_arr = << >>

ExportRateErrors == {"unknown_export_rate_site", "missing_export_rate"}

\* C11: once solve has bound the export rates, every site's rate is 1 if
\* none were given; the binding has failed if a rate names a site the
\* problem does not know; and if it has not failed every site of the
\* problem has a rate bound, the one given for it.
C11_ExportRateBinding ==
  arg_rates # Unset =>
    LET known == DOMAIN site_to_export_rate
        failed == error \in ExportRateErrors
    IN  /\ known = nodes
        /\ failed => SolveEnded /\ outcome = "config_error"
        /\ arg_rates = None =>
             ~failed /\ \A s \in known : site_to_export_rate[s] = Num(1)
        /\ (TruthyDict(arg_rates) /\ DOMAIN arg_rates.f \ known # {})
             => error = "unknown_export_rate_site"
        /\ ~failed =>
             \A s \in known :
               /\ site_to_export_rate[s] # None
               /\ TruthyDict(arg_rates) =>
                    site_to_export_rate[s] = Num(arg_rates.f[s])

\* a solve given no export rates has bound 1 at every site and gone on
C11_Witness ==
  /\ spc = "set_total_flux"
  /\ arg_rates = None
  /\ \A s \in nodes : site_to_export_rate[s] = Num(1)

\* the value last assigned to the parameter
LastAssigned == assigned[Len(assigned)]

\* C12: both slots of a ReciprocalParameter are undefined before any
\* assignment; after assignments the last of which is a non-zero v, the
\* value slot holds v and the reciprocal slot 1/v; after a last assignment
\* of None both are undefined; and never is one slot defined and the other
\* undefined.
C12_PairConsistency ==
  /\ assigned = << >> => rparam.p = None /\ rparam.rp = None
  /\ (assigned # << >> /\ LastAssigned # None /\ LastAssigned.v # 0) =>
       rparam.p = LastAssigned /\ rparam.rp = Frac(1, LastAssigned.v)
  /\ (assigned # << >> /\ LastAssigned = None) =>
       rparam.p = None /\ rparam.rp = None
  /\ rparam.p = None <=> rparam.rp = None

\* C13: for a positive variable a and a parameter holding a positive b,
\* cp_log_ratio is at least 1, is 1 exactly when a = b, and is the same
\* with a and b exchanged.
C13_MisfitSurrogate ==
  (log_ratio # None /\ ratio_b.p.v > 0) =>
    /\ FracLeq(Frac(1, 1), log_ratio)
    /\ log_ratio = Frac(1, 1) <=> ratio_a = ratio_b.p
    /\ log_ratio = CpLogRatio(ratio_b.p, ReciprocalParameter(ratio_a))
    /\ log_ratio = Maximum(Frac(ratio_a.v, ratio_b.p.v),
                           Frac(ratio_b.p.v, ratio_a.v))

\* the ratio of a variable of 1 to a parameter of 3 has been evaluated
C13_Witness ==
  /\ log_ratio = Frac(3, 1)
  /\ ratio_a = Num(1) /\ ratio_b.p = Num(3)

\* the predictions of the repeats 1..n for the site s
RepeatedPredictions(kind, s, n) ==
  [r \in 1..n |-> Scaled(SolvedValue(<<kind, s>>, r))]

\* C14: a solve_montecarlo that has returned after n repeats holds for
\* every site of the network the n downstream predictions of its repeats,
\* in their order; a discrete problem holds the n upstream predictions of
\* every site likewise, and a continuous one a list of the n maps; with
\* n = 0 both are empty.
C14_MonteCarloSamples ==
  mc_pc = "returned" =>
    LET n == num_repeats
        sites == IF n = 0 THEN {} ELSE nodes
    IN  /\ mc_done = n
        /\ DOMAIN predictions_down_mc = sites
        /\ \A s \in sites :
             predictions_down_mc[s] = RepeatedPredictions("downstream", s, n)
        /\ n = 0 => predictions_down_mc = << >> /\ predictions_up_mc = << >>
        /\ ~continuous =>
             /\ DOMAIN predictions_up_mc = sites
             /\ \A s \in sites :
                  predictions_up_mc[s] = RepeatedPredictions("upstream", s, n)
        /\ continuous =>
             /\ Len(predictions_up_mc) = n
             /\ \A r \in 1..n :
                  /\ DOMAIN predictions_up_mc[r] = DOMAIN area_labels
                  /\ \A q \in DOMAIN area_labels :
                       predictions_up_mc[r][q].run = r

\* a solve_montecarlo of two repeats has returned from a continuous problem
C14_Witness ==
  /\ mc_pc = "returned" /\ num_repeats = 2
  /\ continuous
  /\ Len(predictions_up_mc) = 2
  /\ \A s \in nodes : Len(predictions_down_mc[s]) = 2

\* the pixels get_upstream_prediction_map fills for the node at row j,
\* column i
Block(j, i) ==
  {q \in DOMAIN area_labels :
     /\ BlockStart(j, grid_ny, raster_shape[1]) <= q[1]
     /\ q[1] < BlockStart(j + 1, grid_ny, raster_shape[1])
     /\ BlockStart(i, grid_nx, raster_shape[2]) <= q[2]
     /\ q[2] < BlockStart(i + 1, grid_nx, raster_shape[2])}

\* C17: the upstream map a solve of a continuous problem returns holds, in
\* the block of pixels of each grid node, the node's solved concentration
\* (times the mean of the observations, as solve returns it), and NaN in
\* the block of every node outside all catchments, whose variable has no
\* value; every pixel is in the block of a node.
C17_UpstreamMap ==
  (continuous /\ returned # None) =>
    /\ DOMAIN returned.up = DOMAIN area_labels
    /\ \A q \in DOMAIN area_labels : \E c \in DOMAIN node_arr :
         q \in Block(c[1], c[2])
    /\ \A c \in DOMAIN node_arr : \A q \in Block(c[1], c[2]) :
         returned.up[q] =
           IF node_arr[c].sample_name = NaNName THEN NaN
           ELSE Scaled(SolvedValue(<<"cell", c[1], c[2]>>, solved.v))

\* a solve has returned the map of a grid of two by two nodes, some in a
\* catchment and some outside
C17_Witness ==
  /\ continuous /\ returned # None
  /\ grid_nx = 2 /\ grid_ny = 2
  /\ \E c, d \in DOMAIN node_arr :
       /\ node_arr[c].sample_name = NaNName
       /\ node_arr[d].sample_name # NaNName
       /\ \E q \in Block(c[1], c[2]) : returned.up[q] = NaN
       /\ \E q \in Block(d[1], d[2]) : returned.up[q].k = "value"

\* the structure _build_primary_terms gives a problem on a chain of sites
ChainPrimaryTerms == [n \in 1..Cardinality(nodes) |-> n]
ChainConstraints ==
  [k \in 1..(2 * Cardinality(nodes)) |->
     [kind |-> IF k % 2 = 1 THEN "total_tracer_flux"
               ELSE "normalised_concentration",
      site |-> (k + 1) \div 2]]

\* C18: whatever calls of solve and solve_montecarlo were made on it, and
\* however they ended, a constructed problem has the terms and constraints
\* its construction gave it: one primary term and two constraints for each
\* node of the network, and the regularizer terms of its construction.
C18_StructureFixed ==
  (op = "build" /\ pc = "returned") =>
    /\ primary_terms = ChainPrimaryTerms
    /\ constraints = ChainConstraints
    /\ regularizer_terms =
         IF ~use_regularization THEN << >>
         ELSE IF continuous
         THEN RegularizerTermsContinuous(node_arr, grid_ny, grid_nx, 0)
         ELSE SeqOfSet(nodes)

\* a solve_montecarlo has ended in the exception of its second solve, on a
\* problem that still has its structure
C18_Witness ==
  /\ mc_pc = "raised" /\ mc_done >= 1
  /\ Len(primary_terms) = Cardinality(nodes)
  /\ Len(constraints) = 2 * Cardinality(nodes)

\* the node at c is inside a catchment
Inside(c) == node_arr[c] # None /\ node_arr[c].sample_name # NaNName

\* the pairs of a node and its left or top neighbour, both inside
InsidePairs ==
  {p \in (DOMAIN node_arr) \X (DOMAIN node_arr) :
     /\ Inside(p[1]) /\ Inside(p[2])
     /\ \/ p[2] = <<p[1][1], p[1][2] - 1>>
        \/ p[2] = <<p[1][1] - 1, p[1][2]>>}

\* C19: the regularizer of a continuous problem has exactly one term, the
\* difference of their concentrations, for every node and left or top
\* neighbour that both lie inside a catchment, and no other term.
C19_ContinuousRegularizer ==
  (continuous /\ use_regularization /\ op = "build" /\ pc = "returned") =>
    /\ \A p \in InsidePairs :
         Cardinality({k \in DOMAIN regularizer_terms :
                        regularizer_terms[k] =
                          [node |-> p[1], minus |-> p[2]]}) = 1
    /\ \A k \in DOMAIN regularizer_terms :
         <<regularizer_terms[k].node, regularizer_terms[k].minus>>
           \in InsidePairs

\* a problem was built on a grid of two by two nodes, one of them outside
\* every catchment, with a term for each of the two pairs left
C19_Witness ==
  /\ continuous /\ use_regularization /\ op = "build" /\ pc = "returned"
  /\ grid_nx = 2 /\ grid_ny = 2
  /\ Cardinality({c \in DOMAIN node_arr : ~Inside(c)}) = 1
  /\ Len(regularizer_terms) = 2

\* C20: every node the sweep has created at row j, column i refers to the
\* node at (j, i - 1) as its left neighbour if i > 0 and to none if i = 0,
\* and to the node at (j - 1, i) as its top neighbour if j > 0 and to none
\* if j = 0; the nodes referred to were created before.
C20_NeighbourWiring ==
  \A c \in DOMAIN node_arr :
    node_arr[c] # None =>
      /\ node_arr[c].left_neighbour =
           IF c[2] > 0 THEN [k |-> "node", j |-> c[1], i |-> c[2] - 1]
           ELSE None
      /\ node_arr[c].top_neighbour =
           IF c[1] > 0 THEN [k |-> "node", j |-> c[1] - 1, i |-> c[2]]
           ELSE None
      /\ c[2] > 0 => node_arr[<<c[1], c[2] - 1>>] # None
      /\ c[1] > 0 => node_arr[<<c[1] - 1, c[2]>>] # None

\* a grid of two by two nodes was constructed
C20_Witness ==
  /\ gpc = "constructed"
  /\ grid_nx = 2 /\ grid_ny = 2
  /\ node_arr[<<1, 1>>].left_neighbour = [k |-> "node", j |-> 1, i |-> 0]
  /\ node_arr[<<1, 1>>].top_neighbour = [k |-> "node", j |-> 0, i |-> 1]

\* C15: an element for which the solver failed has no columns in the
\* results, and process_data does not end in the exception of a solve
\* whose solver failed.
C15_FailedElementSkipped ==
  /\ \A e \in solver_failed : \A k \in DOMAIN results : results[k] # e
  /\ sw_pc = "raised" => (sw_element + 1) \notin solver_failed

\* C16: the network get_sample_graphs returns has every record but the
\* root's as a node and no other node; the root is not a node and no edge
\* leads to it; and the edges leaving a node are the one to its downstream
\* node if that is not the root, and none if it is.
C16_SampleGraph ==
  graph_pc = "returned" =>
    /\ nodes = DOMAIN sample_network_raw \ {RootName}
    /\ RootName \notin nodes
    /\ \A e \in edges : e[1] # RootName /\ e[2] # RootName
    /\ \A n \in nodes :
         /\ Cardinality(Successors(edges, n)) <= 1
         /\ Successors(edges, n) =
              IF sample_network_raw[n] # RootName
              THEN {sample_network_raw[n]} ELSE {}

\* a network was returned for the root's record and three others, one
\* draining into the root and one into another record
C16_Witness ==
  /\ graph_pc = "returned"
  /\ DOMAIN sample_network_raw = 0..3
  /\ Cardinality(nodes) = 3
  /\ \E n \in nodes : sample_network_raw[n] = RootName
  /\ edges # {}

\* C28: in every repeat of solve_montecarlo solve is given no export rates
\* and, from the moment it has bound them, the export rate of every site
\* is 1, whatever rates the problem held before.
C28_MonteCarloDefaultRates ==
  (caller = "solve_montecarlo" /\ arg_rates # Unset) =>
    /\ arg_rates = None
    /\ site_to_export_rate = [s \in nodes |-> Num(1)]

\* the solver was called in the first repeat of a solve_montecarlo on a
\* problem that held an export rate of 2 from an earlier solve
C28_Witness ==
  /\ caller = "solve_montecarlo" /\ mc_done = 0 /\ solver_invoked
  /\ entry # Unset
  /\ \E s \in nodes : entry.export_rate[s] = Num(2)
  /\ \A s \in nodes : site_to_export_rate[s] = Num(1)

\* the export rate a call given `rates` has for site s
RateGiven(rates, s) ==
  IF ~TruthyDict(rates) THEN Num(1)
  ELSE IF s \in DOMAIN rates.f THEN Num(rates.f[s]) ELSE None

\* the flux through s under `rates`: the relative area times the export
\* rate of every node of its upstream closure, summed
ClosureFlux(rates, s) ==
  Frac(Cardinality(nodes) *
         SumOver(UpstreamClosure(edges, s),
                 [u \in nodes |-> data[u].area * RateGiven(rates, u).v]),
       SumOver(nodes, [u \in nodes |-> data[u].area]))

\* C23: when the solver has been called, every parameter holds what the
\* arguments of this call determine: each observation its value over the
\* mean, each export rate the rate given or 1, each total flux the flux
\* accumulated under those rates, the strength the one given; nothing of
\* the bindings of earlier calls, ended well or not, is left.
C23_BindingsFromArguments ==
  solver_invoked =>
    /\ DOMAIN arg_obs.f = nodes
    /\ site_to_observation =
         [s \in nodes |-> ReciprocalParameter(Normalised(arg_obs.f, s))]
    /\ site_to_export_rate = [s \in nodes |-> RateGiven(arg_rates, s)]
    /\ site_to_total_flux =
         [s \in nodes |-> ReciprocalParameter(ClosureFlux(arg_rates, s))]
    /\ regularizer_strength = arg_strength

\* the solver was called in a solve given unequal export rates, on a
\* problem whose parameters held other values, some of them None, from the
\* calls before
C23_Witness ==
  /\ solver_invoked /\ caller = "user"
  /\ TruthyDict(arg_rates)
  /\ entry.export_rate # site_to_export_rate
  /\ entry.observation # site_to_observation
  /\ \E s \in nodes : entry.export_rate[s] = Num(2)
  /\ \E s \in nodes : entry.total_flux[s].p = None
  /\ \E s, t \in nodes : site_to_export_rate[s] # site_to_export_rate[t]

\* the totals of n hold the contribution of every node of its upstream
\* closure and of no other node
TotalsComplete(n) ==
  LET up == UpstreamClosure(edges, n)
  IN  IF op = "mix"
      THEN /\ data[n].my_total_flux.const =
                SumOver(up, [u \in nodes |-> data[u].area * ExportRateOf(u)])
           /\ data[n].my_total_tracer_flux.const =
                SumOver(up, [u \in nodes |->
                       data[u].area * ExportRateOf(u) * concentration[u]])
      ELSE /\ data[n].my_total_flux.coef =
                [u \in nodes |-> IF u \in up THEN 1 ELSE 0]
           /\ data[n].my_total_tracer_flux.coef =
                [u \in nodes |-> IF u \in up THEN 1 ELSE 0]

\* the totals of the nodes already processed are left as they are
TotalsFrozen ==
  \A n \in visited \cap visited' :
    /\ data'[n].my_total_flux = data[n].my_total_flux
    /\ data'[n].my_total_tracer_flux = data[n].my_total_tracer_flux

\* C22: in either pass, a node is processed after every node of its
\* upstream closure, its totals then hold the contributions of them all,
\* and no later step of the pass changes its totals.
C22_OrderedAccumulation ==
  /\ [](\A n \in visited :
          /\ UpstreamClosure(edges, n) \subseteq visited
          /\ TotalsComplete(n))
  /\ [][TotalsFrozen]_vars

\* the builder is in its loop and has processed a node that collects from
\* an upstream node and passes on to a downstream node not yet processed
C22_Witness ==
  /\ op = "build" /\ pc = "loop"
  /\ \E n \in visited :
       /\ Predecessors(edges, n) # {}
       /\ Successors(edges, n) # {}
       /\ Successors(edges, n) \cap visited = {}
       /\ data[n].my_total_flux # data[n].my_flux

\* C25: for every export rate and tracer value of the nodes, the
\* downstream prediction the problem gives for a node, from totals built
\* with relative areas, is the one mix_downstream gives from the areas
\* themselves.
C25_NormalisationNeutral ==
  (op = "build" /\ pc = "returned") =>
    \A r \in [nodes -> RateValues] : \A c \in ConcMaps(nodes) :
      LET mixed == MixDownstream(nodes, edges, data, Dict(r), c)
      IN  \A n \in nodes :
            DownstreamPrediction(nodes, data, n,
                                 [s \in nodes |-> Num(r[s])], c)
              = mixed.down[n]

\* a problem is built on a network of unequal areas, none equal to its
\* relative area, where a node collects from all the others
C25_Witness ==
  /\ op = "build" /\ pc = "returned"
  /\ \E u, v \in nodes : data[u].area # data[v].area
  /\ \A u \in nodes : data[u].rltv_area # Frac(data[u].area, 1)
  /\ \E n \in nodes : UpstreamClosure(edges, n) = nodes

\* C27: a mix_downstream that has returned after an earlier one on the
\* same network, with the same inputs, returns what the earlier one did;
\* and the totals of a problem built after a mix_downstream are those of a
\* problem built on a fresh network: no number of the earlier pass, and the
\* term of each node of the upstream closure once.
C27_PassesStartFromZero ==
  (pc = "returned" /\ last_mix # None) =>
    IF op = "mix"
    THEN /\ mixed_downstream_pred = last_mix.down
         /\ mixed_upstream_pred = last_mix.up
    ELSE \A n \in nodes :
           LET own == Expr(0, [u \in nodes |->
                        IF u \in UpstreamClosure(edges, n) THEN 1 ELSE 0])
           IN  /\ data[n].my_total_flux = own
               /\ data[n].my_total_tracer_flux = own

\* a third pass, a mix_downstream with unequal export rates on a network
\* where a node collects from another, has returned after an earlier one
C27_Witness ==
  /\ pass_no = MaxPasses /\ op = "mix" /\ pc = "returned"
  /\ last_mix # None
  /\ TruthyDict(export_rates)
  /\ edges # {}
  /\ \E n \in nodes : mixed_downstream_pred[n] # Frac(concentration[n], 1)

\* C24: whatever else has run on the network of a problem, the problem
\* binds in solve the total fluxes accumulated from the export rates of the
\* call, and its getters return the predictions of its last solve.
C24_NoInterference ==
  /\ error \notin {"attribute_error", "total_flux_none"}
  /\ spc = "check_strength" =>
       site_to_total_flux =
         [s \in nodes |-> ReciprocalParameter(ClosureFlux(arg_rates, s))]
  /\ got # Unset =>
       /\ ~got.down.raised /\ ~got.up.raised
       /\ got.down.val =
            [s \in nodes |-> SolvedValue(<<"downstream", s>>, got.run)]
       /\ got.up.val =
            [s \in nodes |-> SolvedValue(<<"upstream", s>>, got.run)]

\* a cell that holds a number: not missing, not text
NumericPresent(c) == c.k \in {"float", "int"} /\ ~c.nan

\* C21: the mapping get_element_obs returns has exactly the samples whose
\* cell holds a number, each with its cell; samples whose cell is missing or
\* not a number are left out.
C21_NumericCellsOnly ==
  obs_element_data # Unset =>
    /\ DOMAIN obs_element_data.f =
         {e \in DOMAIN obs_cells : NumericPresent(obs_cells[e])}
    /\ \A e \in DOMAIN obs_element_data.f :
         obs_element_data.f[e] = obs_cells[e]

\* C26: the pixel at which a cell reads its label is a pixel of the
\* raster, and one of the block get_upstream_prediction_map fills for that
\* cell.
C26_CentreInBlock ==
  (centre_pixel # Unset /\ block_pixels # Unset) =>
    /\ 0 <= centre_pixel[1] /\ centre_pixel[1] < raster_shape[1]
    /\ 0 <= centre_pixel[2] /\ centre_pixel[2] < raster_shape[2]
    /\ block_pixels.y_start <= centre_pixel[1]
    /\ centre_pixel[1] < block_pixels.y_end
    /\ block_pixels.x_start <= centre_pixel[2]
    /\ centre_pixel[2] < block_pixels.x_end
====
